---- MODULE Spec2Model ----
(***************************************************************************)
(* State-machine model of the tensor event store of sagemaker-debugger     *)
(* (tornasole): the asynchronous write pipeline EventFileWriter with its   *)
(* worker thread _EventLoggerThread, the EventsWriter / IndexWriter pair   *)
(* it drives, and the local-file backend TSAccessFile that both logs are   *)
(* written through.                                                        *)
(*                                                                         *)
(* Caller threads invoke write_event / write_tensor, flush, close and      *)
(* reopen on one EventFileWriter instance.  Every method is cut into one   *)
(* step per access to shared state (the _closed flag, the queue, the       *)
(* EventsWriter, the worker thread), so that all interleavings the Python  *)
(* threads can produce are explored.                                       *)
(***************************************************************************)
EXTENDS Integers, Sequences, FiniteSets, TLC

(***************************************************************************)
(* Bounds of the model.                                                    *)
(***************************************************************************)
MaxQueue == 2      \* max_queue handed to EventFileWriter.__init__
MaxEvents == 2     \* events the callers create in one behaviour

Threads == {"p1", "p2"}
Workers == {1, 2, 3}   \* worker threads: the first and those reopen() starts

VARIABLES
    pc,          \* pc[t]: where caller thread t stands inside a method
    pend,        \* pend[t]: the event t is about to put on the queue
    snap,        \* snap[t]: number of events enqueued when t's flush/close began
    queue,       \* EventFileWriter._event_queue (FIFO, capacity max_queue)
    unfinished,  \* Queue.unfinished_tasks: put() adds one, task_done() takes one
    closed,      \* EventFileWriter._closed
    worker,      \* EventFileWriter._worker: the thread started last
    wstate,      \* wstate[w]: position of worker thread w in run()
    wcur,        \* wcur[w]: the queue item w took and has not finished
    wpos,        \* wpos[w]: (position, length) write_event returned to w
    wfirst,      \* wfirst[w]: _next_event_flush_time is still 0
    recOpen,     \* EventsWriter.tfrecord_writer is not None
    outstanding, \* EventsWriter._num_outstanding_events
    idxOpen,     \* IndexWriter.writer is not None
    files,       \* the local file system: path -> [exists, data]
    nextId,      \* identity of the next event a caller creates
    enq,         \* history: the events put on the queue, in put order
    lateIds,     \* history: ids of the events issued while _closed was True
    overlap,     \* history: two reopen() calls have overlapped
    applied,     \* history: the appends the workers made, <<log, event id>>
    handle,      \* a TSAccessFile a caller opened itself: path, mode, state
    tensors,     \* tensors[c]: the Tensor made with cache = c, and its Trial
    storage,     \* the index entries training has written, in order
    ended,       \* training has ended
    pushed       \* history: the add_* calls made on the Tensors directly

\* the EventFileWriter, its threads and its files
writer == <<pc, pend, snap, queue, unfinished, closed, worker, wstate, wcur,
            wpos, wfirst, recOpen, outstanding, idxOpen, nextId, enq,
            lateIds, overlap, applied>>

\* what the EventFileWriter and its threads leave alone
query == <<tensors, storage, ended, pushed>>
others == <<handle, query>>

vars == <<writer, files, others>>

(***************************************************************************)
(* Events.  The sentinel is the one Event object made at construction; a   *)
(* tensor written with an index travels as IndexArgs(event, tensorname).   *)
(* The serialized event with id n is n bytes long.                         *)
(***************************************************************************)
_get_sentinel_event == [id |-> 0, indexed |-> FALSE]
NoEvent == [id |-> -1, indexed |-> FALSE]
NoPos == <<-1, -1>>

(***************************************************************************)
(* TSAccessFile: a local file opened for writing is written at a temporary *)
(* path and moved to its permanent path by close().                        *)
(***************************************************************************)
Paths == {"index", "record"}
Places == [name : Paths, temp : BOOLEAN]
Absent == [exists |-> FALSE, data |-> <<>>]
Empty == [exists |-> TRUE, data |-> <<>>]

get_temp_path(path) == [path EXCEPT !.temp = TRUE]
Permanent(name) == [name |-> name, temp |-> FALSE]

RECURSIVE Bytes(_)
Bytes(data) ==
    IF data = <<>> THEN 0 ELSE Head(data).length + Bytes(Tail(data))

\* __init__ with a mode of WRITE_MODES: open(temp_path, mode); an append mode
\* keeps what the file at temp_path holds, a write mode truncates it
APPEND_MODES == {"a", "a+", "ab", "ab+"}
WRITE_MODES == {"w", "w+", "wb", "wb+"} \cup APPEND_MODES

TSAccessFile_init(fs, path, mode) ==
    LET temp == get_temp_path(path) IN
    IF mode \in APPEND_MODES /\ fs[temp].exists THEN fs
    ELSE [fs EXCEPT ![temp] = Empty]

\* write(): returns [start, length]; start is tell() before the write
TSAccessFile_tell(fs, path) == Bytes(fs[get_temp_path(path)].data)

TSAccessFile_write(fs, path, item) ==
    LET temp == get_temp_path(path) IN
    [fs EXCEPT ![temp].data = Append(@, item)]

\* a close() that leaves the file at its temporary path
TSAccessFile_close_unmoved(fs, path) == fs

\* close(): shutil.move(temp_path, path)
TSAccessFile_close(fs, path) ==
    LET temp == get_temp_path(path) IN
    [fs EXCEPT ![path] = fs[temp], ![temp] = Absent]

(***************************************************************************)
(* IndexWriter and EventsWriter.                                           *)
(***************************************************************************)
\* an IndexWriter whose constructor leaves the writer unopened
IndexWriter_init_lazy(fs) == fs

\* IndexWriter.__init__: the writer is opened in the constructor
IndexWriter_init(fs) == TSAccessFile_init(fs, Permanent("index"), "a+")

\* RecordWriter(filename, write_checksum), made by _init_if_needed: the
\* Record Log is opened in append-create mode
RecordWriter_init(fs) == TSAccessFile_init(fs, Permanent("record"), "ab")
\* a TensorLocation with the offset and the length in each other's place
TensorLocation_swapped(ev, pos) ==
    [tname |-> ev.id, file |-> "record", start |-> pos[2], len |-> pos[1]]

\* the line add_index writes: TensorLocation(tname, eventfile, start, length)
TensorLocation(ev, pos) ==
    [tname |-> ev.id, file |-> "record", start |-> pos[1], len |-> pos[2]]

\* the record write_record appends for an event
Record(ev) == [id |-> ev.id, length |-> ev.id]

(***************************************************************************)
(* The state after EventFileWriter.__init__: EventsWriter.__init__ makes   *)
(* the IndexWriter, init_with_suffix makes the RecordWriter, and the first *)
(* worker thread is started.                                               *)
(***************************************************************************)
NoFiles == [p \in Places |-> Absent]

\* no TSAccessFile besides the writers' own
NoHandle ==
    [path |-> "none", mode |-> "none", state |-> "none", written |-> <<>>,
     before |-> Absent]

\* Tensor.__init__ for both Tensors, each with a Trial that has scanned
\* nothing
InitQuery ==
    /\ tensors = [c \in BOOLEAN |->
                    [modes |-> <<>>,
                     trial |-> [steps |-> <<>>, scanned |-> 0,
                                loaded_all_steps |-> FALSE],
                     cache |-> c]]
    /\ storage = <<>>
    /\ ended = FALSE
    /\ pushed = <<>>

InitWriter ==
    /\ pc = [t \in Threads |-> "idle"]
    /\ pend = [t \in Threads |-> NoEvent]
    /\ snap = [t \in Threads |-> 0]
    /\ queue = <<>>
    /\ unfinished = 0
    /\ closed = FALSE
    /\ worker = 1
    /\ wstate = [w \in Workers |-> IF w = 1 THEN "get" ELSE "none"]
    /\ wcur = [w \in Workers |-> NoEvent]
    /\ wpos = [w \in Workers |-> NoPos]
    /\ wfirst = [w \in Workers |-> TRUE]
    /\ recOpen = TRUE
    /\ outstanding = 0
    /\ idxOpen = TRUE
    /\ nextId = 1
    /\ enq = <<>>
    /\ lateIds = {}
    /\ overlap = FALSE
    /\ applied = <<>>

Init ==
    /\ InitWriter
    /\ files = RecordWriter_init(IndexWriter_init(NoFiles))
    /\ handle = NoHandle
    /\ InitQuery

(***************************************************************************)
(* Caller side: EventFileWriter.write_event / write_tensor.                *)
(***************************************************************************)
\* write_event without its test of _closed
AcceptsAlways(isClosed) == TRUE

\* write_event: `if not self._closed`
Accepts(isClosed) == ~isClosed

\* Queue.put blocks while the queue holds max_queue items
CanPut(q) == Len(q) < MaxQueue

\* write_tensor(write_index) / write_summary / write_graph build the event and
\* call write_event, which reads _closed; a rejected event is dropped
WriteEvent(t) ==
    /\ pc[t] = "idle"
    /\ nextId <= MaxEvents
    /\ \E withIndex \in BOOLEAN :
         IF Accepts(closed)
         THEN /\ pc' = [pc EXCEPT ![t] = "put"]
              /\ pend' = [pend EXCEPT ![t] = [id |-> nextId, indexed |-> withIndex]]
         ELSE UNCHANGED <<pc, pend>>
    /\ lateIds' = IF closed THEN lateIds \cup {nextId} ELSE lateIds
    /\ nextId' = nextId + 1
    /\ UNCHANGED <<snap, queue, unfinished, closed, worker, wstate, wcur, wpos,
                   wfirst, recOpen, outstanding, idxOpen, files, enq, overlap, applied>>
    /\ UNCHANGED others

\* a queue that hands out the newest item first
PutFirst(q, ev) == <<ev>> \o q

\* Queue._put: the item joins the end of the queue
QueuePut(q, ev) == Append(q, ev)

\* self._event_queue.put(event)
Put(t) ==
    /\ pc[t] = "put"
    /\ CanPut(queue)
    /\ queue' = QueuePut(queue, pend[t])
    /\ unfinished' = unfinished + 1
    /\ enq' = Append(enq, pend[t])
    /\ pend' = [pend EXCEPT ![t] = NoEvent]
    /\ pc' = [pc EXCEPT ![t] = "idle"]
    /\ UNCHANGED <<snap, closed, worker, wstate, wcur, wpos, wfirst, recOpen,
                   outstanding, idxOpen, files, nextId, lateIds, overlap, applied>>
    /\ UNCHANGED others

(***************************************************************************)
(* EventsWriter.flush / close and IndexWriter.close.                       *)
(***************************************************************************)
\* EventsWriter.flush: returns at once without outstanding events or without
\* a record writer; otherwise flushes the writer and zeroes the count
EventsWriter_flushes(isOpen, n) == ~(n = 0 \/ ~isOpen)

EventsWriter_flush(isOpen, n) == IF EventsWriter_flushes(isOpen, n) THEN 0 ELSE n
\* an EventsWriter.close that leaves the record file where it was written
EventsWriter_close_kept(fs, isOpen) == fs

\* EventsWriter.close: flush(), then close and drop the record writer
EventsWriter_close(fs, isOpen) ==
    IF isOpen THEN TSAccessFile_close(fs, Permanent("record")) ELSE fs

\* IndexWriter.close: flush and close the writer if there is one
IndexWriter_close(fs, isOpen) ==
    IF isOpen THEN TSAccessFile_close(fs, Permanent("index")) ELSE fs

(***************************************************************************)
(* EventFileWriter.flush.                                                  *)
(***************************************************************************)
FlushCall(t) ==
    /\ pc[t] = "idle"
    /\ pc' = [pc EXCEPT ![t] = "fl_join"]
    /\ snap' = [snap EXCEPT ![t] = Len(enq)]
    /\ UNCHANGED <<pend, queue, unfinished, closed, worker, wstate, wcur, wpos,
                   wfirst, recOpen, outstanding, idxOpen, files, nextId, enq,
                   lateIds, overlap, applied>>
    /\ UNCHANGED others

\* self._event_queue.join(): waits until unfinished_tasks is 0
JoinDone(n) == n = 0

FlushJoin(t) ==
    /\ pc[t] = "fl_join"
    /\ JoinDone(unfinished)
    /\ pc' = [pc EXCEPT ![t] = "fl_flush"]
    /\ UNCHANGED <<pend, snap, queue, unfinished, closed, worker, wstate, wcur,
                   wpos, wfirst, recOpen, outstanding, idxOpen, files, nextId,
                   enq, lateIds, overlap, applied>>
    /\ UNCHANGED others

\* self._ev_writer.flush(), on the caller's thread
FlushWriter(t) ==
    /\ pc[t] = "fl_flush"
    /\ outstanding' = EventsWriter_flush(recOpen, outstanding)
    /\ pc' = [pc EXCEPT ![t] = "idle"]
    /\ snap' = [snap EXCEPT ![t] = 0]
    /\ UNCHANGED <<pend, queue, unfinished, closed, worker, wstate, wcur, wpos,
                   wfirst, recOpen, idxOpen, files, nextId, enq, lateIds, overlap, applied>>
    /\ UNCHANGED others

(***************************************************************************)
(* EventFileWriter.close.                                                  *)
(***************************************************************************)
\* `if not self._closed`, and the same test in write_event(sentinel): a
\* closed pipeline is left alone
CloseBegin(t) ==
    /\ pc[t] = "idle"
    /\ IF Accepts(closed)
       THEN /\ pc' = [pc EXCEPT ![t] = "cl_put"]
            /\ pend' = [pend EXCEPT ![t] = _get_sentinel_event]
            /\ snap' = [snap EXCEPT ![t] = Len(enq)]
       ELSE UNCHANGED <<pc, pend, snap>>
    /\ UNCHANGED <<queue, unfinished, closed, worker, wstate, wcur, wpos,
                   wfirst, recOpen, outstanding, idxOpen, files, nextId, enq,
                   lateIds, overlap, applied>>
    /\ UNCHANGED others

\* the put of the sentinel
ClosePut(t) ==
    /\ pc[t] = "cl_put"
    /\ CanPut(queue)
    /\ queue' = QueuePut(queue, pend[t])
    /\ unfinished' = unfinished + 1
    /\ pend' = [pend EXCEPT ![t] = NoEvent]
    /\ pc' = [pc EXCEPT ![t] = "cl_join"]
    /\ UNCHANGED <<snap, closed, worker, wstate, wcur, wpos, wfirst, recOpen,
                   outstanding, idxOpen, files, nextId, enq, lateIds, overlap, applied>>
    /\ UNCHANGED others

\* self.flush(): the join of the queue ...
CloseJoin(t) ==
    /\ pc[t] = "cl_join"
    /\ JoinDone(unfinished)
    /\ pc' = [pc EXCEPT ![t] = "cl_flush"]
    /\ UNCHANGED <<pend, snap, queue, unfinished, closed, worker, wstate, wcur,
                   wpos, wfirst, recOpen, outstanding, idxOpen, files, nextId,
                   enq, lateIds, overlap, applied>>
    /\ UNCHANGED others

\* ... and the flush of the EventsWriter
CloseFlush(t) ==
    /\ pc[t] = "cl_flush"
    /\ outstanding' = EventsWriter_flush(recOpen, outstanding)
    /\ pc' = [pc EXCEPT ![t] = "cl_wjoin"]
    /\ UNCHANGED <<pend, snap, queue, unfinished, closed, worker, wstate, wcur,
                   wpos, wfirst, recOpen, idxOpen, files, nextId, enq, lateIds, overlap, applied>>
    /\ UNCHANGED others

\* Thread.join returns once the thread has ended, by return or by exception
Ended(ws) == ws \in {"exited", "failed"}

\* self._worker.join(), then self._ev_writer.indexwriter.close()
CloseIndex(t) ==
    /\ pc[t] = "cl_wjoin"
    /\ Ended(wstate[worker])
    /\ files' = IndexWriter_close(files, idxOpen)
    /\ idxOpen' = FALSE
    /\ pc' = [pc EXCEPT ![t] = "cl_rec"]
    /\ UNCHANGED <<pend, snap, queue, unfinished, closed, worker, wstate, wcur,
                   wpos, wfirst, recOpen, outstanding, nextId, enq, lateIds, overlap, applied>>
    /\ UNCHANGED others

\* self._ev_writer.close(), then self._closed = True
CloseEventsWriter(t) ==
    /\ pc[t] = "cl_rec"
    /\ files' = EventsWriter_close(files, recOpen)
    /\ recOpen' = FALSE
    /\ outstanding' = EventsWriter_flush(recOpen, outstanding)
    /\ closed' = TRUE
    /\ pc' = [pc EXCEPT ![t] = "idle"]
    /\ snap' = [snap EXCEPT ![t] = 0]
    /\ UNCHANGED <<pend, queue, unfinished, worker, wstate, wcur, wpos, wfirst,
                   idxOpen, nextId, enq, lateIds, overlap, applied>>
    /\ UNCHANGED others

(***************************************************************************)
(* EventFileWriter.reopen.                                                 *)
(***************************************************************************)
\* the thread objects made so far
Started == {w \in Workers : wstate[w] # "none"}

\* the callers inside reopen()
Reopening == {t \in Threads : pc[t] \in {"ro_check", "ro_set"}}

ReopenCall(t) ==
    /\ pc[t] = "idle"
    /\ Cardinality(Started) + Cardinality(Reopening) < Cardinality(Workers)
    /\ pc' = [pc EXCEPT ![t] = "ro_check"]
    /\ overlap' = (overlap \/ Reopening # {})
    /\ UNCHANGED <<pend, snap, queue, unfinished, closed, worker, wstate, wcur,
                   wpos, wfirst, recOpen, outstanding, idxOpen, files, nextId,
                   enq, lateIds, applied>>
    /\ UNCHANGED others

\* reopen without its test of _closed
ReopensAlways(isClosed) == TRUE

\* `if self._closed`
Reopens(isClosed) == isClosed

\* `if self._closed`: self._worker = _EventLoggerThread(...); self._worker.start()
ReopenStart(t) ==
    /\ pc[t] = "ro_check"
    /\ IF Reopens(closed)
       THEN LET w == Cardinality(Started) + 1 IN
              /\ worker' = w
              /\ wstate' = [wstate EXCEPT ![w] = "get"]
              /\ pc' = [pc EXCEPT ![t] = "ro_set"]
       ELSE /\ pc' = [pc EXCEPT ![t] = "idle"]
            /\ UNCHANGED <<worker, wstate>>
    /\ UNCHANGED <<pend, snap, queue, unfinished, closed, wcur, wpos, wfirst,
                   recOpen, outstanding, idxOpen, files, nextId, enq, lateIds, overlap, applied>>
    /\ UNCHANGED others

\* self._closed = False
ReopenSet(t) ==
    /\ pc[t] = "ro_set"
    /\ closed' = FALSE
    /\ pc' = [pc EXCEPT ![t] = "idle"]
    /\ UNCHANGED <<pend, snap, queue, unfinished, worker, wstate, wcur, wpos,
                   wfirst, recOpen, outstanding, idxOpen, files, nextId, enq,
                   lateIds, overlap, applied>>
    /\ UNCHANGED others

(***************************************************************************)
(* _EventLoggerThread.run, one worker thread w.                            *)
(***************************************************************************)
\* `event is self._sentinel_event`
IsSentinel(ev) == ev.id = _get_sentinel_event.id

\* event_in_queue = self._queue.get(); the sentinel is acknowledged with
\* task_done() and ends the loop
WorkerGet(w) ==
    /\ wstate[w] = "get"
    /\ queue # <<>>
    /\ queue' = Tail(queue)
    /\ IF IsSentinel(Head(queue))
       THEN /\ unfinished' = unfinished - 1
            /\ wstate' = [wstate EXCEPT ![w] = "exited"]
            /\ UNCHANGED wcur
       ELSE /\ wstate' = [wstate EXCEPT ![w] = "write"]
            /\ wcur' = [wcur EXCEPT ![w] = Head(queue)]
            /\ UNCHANGED unfinished
    /\ UNCHANGED <<pc, pend, snap, closed, worker, wpos, wfirst, recOpen,
                   outstanding, idxOpen, files, nextId, enq, lateIds, overlap, applied>>
    /\ UNCHANGED others

\* `if now > self._next_event_flush_time`: the first event of a thread is
\* always flushed, a later one when flush_secs have passed; then, in the
\* finally clause, task_done()
Tick(w, due) ==
    /\ wfirst[w] => due
    /\ wfirst' = [wfirst EXCEPT ![w] = FALSE]
    /\ unfinished' = unfinished - 1
    /\ wstate' = [wstate EXCEPT ![w] = "get"]
    /\ wcur' = [wcur EXCEPT ![w] = NoEvent]
    /\ wpos' = [wpos EXCEPT ![w] = NoPos]

\* EventsWriter._write_serialized_event: _init_if_needed when there is no
\* record writer, then write_record, which returns (position, length)
EventsWriter_write(fs, isOpen, ev) ==
    LET opened == IF isOpen THEN fs ELSE RecordWriter_init(fs) IN
    TSAccessFile_write(opened, Permanent("record"), Record(ev))
\* a write_record that reports every record at the start of the file
EventsWriter_positions_zero(fs, isOpen, ev) == <<0, Record(ev).length>>

EventsWriter_positions(fs, isOpen, ev) ==
    LET opened == IF isOpen THEN fs ELSE RecordWriter_init(fs) IN
    <<TSAccessFile_tell(opened, Permanent("record")), Record(ev).length>>

\* positions = self._ev_writer.write_event(event); an event without index
\* goes on to the flush test
WorkerWrite(w) ==
    /\ wstate[w] = "write"
    /\ files' = EventsWriter_write(files, recOpen, wcur[w])
    /\ recOpen' = TRUE
    /\ applied' = Append(applied, <<"record", wcur[w].id>>)
    /\ IF wcur[w].indexed
       THEN /\ wpos' = [wpos EXCEPT ![w] =
                           EventsWriter_positions(files, recOpen, wcur[w])]
            /\ wstate' = [wstate EXCEPT ![w] = "index"]
            /\ outstanding' = outstanding + 1
            /\ UNCHANGED <<wfirst, unfinished, wcur>>
       ELSE \E due \in BOOLEAN :
              /\ Tick(w, due)
              /\ outstanding' =
                   IF due THEN EventsWriter_flush(TRUE, outstanding + 1)
                   ELSE outstanding + 1
    /\ UNCHANGED <<pc, pend, snap, queue, closed, worker, idxOpen, nextId, enq,
                   lateIds, overlap>>
    /\ UNCHANGED others

\* IndexWriter.add_index: opens the writer when there is none, appends a line
IndexWriter_add_index(fs, isOpen, loc) ==
    LET opened == IF isOpen THEN fs ELSE IndexWriter_init(fs) IN
    TSAccessFile_write(opened, Permanent("index"), loc)

\* self._ev_writer.indexwriter.add_index(tensorlocation), then the flush test
WorkerIndex(w) ==
    /\ wstate[w] = "index"
    /\ files' = IndexWriter_add_index(files, idxOpen, TensorLocation(wcur[w], wpos[w]))
    /\ idxOpen' = TRUE
    /\ applied' = Append(applied, <<"index", wcur[w].id>>)
    /\ \E due \in BOOLEAN :
         /\ Tick(w, due)
         /\ outstanding' =
              IF due THEN EventsWriter_flush(recOpen, outstanding) ELSE outstanding
    /\ UNCHANGED <<pc, pend, snap, queue, closed, worker, recOpen, nextId, enq,
                   lateIds, overlap>>
    /\ UNCHANGED others

\* A write to the Blob Store raises inside the try block: the finally clause
\* calls task_done() and the exception ends the thread.  A failed write_record
\* has already counted its event as outstanding.
WorkerFail(w) ==
    /\ wstate[w] \in {"write", "index"}
    /\ outstanding' = IF wstate[w] = "write" THEN outstanding + 1 ELSE outstanding
    /\ unfinished' = unfinished - 1
    /\ wstate' = [wstate EXCEPT ![w] = "failed"]
    /\ UNCHANGED <<pc, pend, snap, queue, closed, worker, wcur, wpos, wfirst,
                   recOpen, idxOpen, files, nextId, enq, lateIds, overlap, applied>>
    /\ UNCHANGED others

(***************************************************************************)
(* The specifications.                                                     *)
(***************************************************************************)
Caller(t) ==
    \/ WriteEvent(t)
    \/ Put(t)
    \/ FlushCall(t)
    \/ FlushJoin(t)
    \/ FlushWriter(t)
    \/ CloseBegin(t)
    \/ ClosePut(t)
    \/ CloseJoin(t)
    \/ CloseFlush(t)
    \/ CloseIndex(t)
    \/ CloseEventsWriter(t)
    \/ ReopenCall(t)
    \/ ReopenStart(t)
    \/ ReopenSet(t)

Run(w) ==
    \/ WorkerGet(w)
    \/ WorkerWrite(w)
    \/ WorkerIndex(w)
    \/ WorkerFail(w)

Next == (\E t \in Threads : Caller(t)) \/ (\E w \in Workers : Run(w))

Spec == Init /\ [][Next]_vars

\* A thread inside a method goes on when it can, and so does a worker thread;
\* nothing obliges a caller to make a call or a write to fail.
Continue(t) ==
    \/ Put(t)
    \/ FlushJoin(t)
    \/ FlushWriter(t)
    \/ ClosePut(t)
    \/ CloseJoin(t)
    \/ CloseFlush(t)
    \/ CloseIndex(t)
    \/ CloseEventsWriter(t)
    \/ ReopenStart(t)
    \/ ReopenSet(t)

Work(w) == WorkerGet(w) \/ WorkerWrite(w) \/ WorkerIndex(w)

FairSpec ==
    /\ Spec
    /\ \A t \in Threads : WF_vars(Continue(t))
    /\ \A w \in Workers : WF_vars(Work(w))

(***************************************************************************)
(* A TSAccessFile used on its own: a caller opens a local file in one of   *)
(* the WRITE_MODES, writes through the handle and closes it.  Files may be *)
(* there before, at the permanent path and (left by an earlier process) at *)
(* the temporary path.                                                     *)
(***************************************************************************)
MaxWrites == 2     \* writes a caller makes through one handle

Items == {Record([id |-> n, indexed |-> FALSE]) : n \in 1..MaxEvents}
OldContents == {Absent, Empty} \cup {[exists |-> TRUE, data |-> <<i>>] : i \in Items}

OldFiles ==
    {fs \in [Places -> OldContents] :
        \A place \in Places : place.name = "index" => fs[place] = Absent}

InitFiles ==
    /\ InitWriter
    /\ files \in OldFiles
    /\ handle = NoHandle
    /\ InitQuery

\* TSAccessFile(path, mode) with mode in WRITE_MODES
HandleOpen ==
    /\ handle.state \in {"none", "closed"}
    /\ \E mode \in WRITE_MODES :
         /\ files' = TSAccessFile_init(files, Permanent("record"), mode)
         /\ handle' = [path |-> "record", mode |-> mode, state |-> "open",
                       written |-> <<>>, before |-> files[Permanent("record")]]
    /\ UNCHANGED <<writer, query>>

\* TSAccessFile.write(_str)
HandleWrite ==
    /\ handle.state = "open"
    /\ Len(handle.written) < MaxWrites
    /\ \E item \in Items :
         /\ files' = TSAccessFile_write(files, Permanent(handle.path), item)
         /\ handle' = [handle EXCEPT !.written = Append(@, item)]
    /\ UNCHANGED <<writer, query>>

\* TSAccessFile.close()
HandleClose ==
    /\ handle.state = "open"
    /\ files' = TSAccessFile_close(files, Permanent(handle.path))
    /\ handle' = [handle EXCEPT !.state = "closed"]
    /\ UNCHANGED <<writer, query>>

NextFiles == HandleOpen \/ HandleWrite \/ HandleClose

FileSpec == InitFiles /\ [][NextFiles]_vars

(***************************************************************************)
(* The Tensor Query Engine: Step, ModeSteps and Tensor.  An operation is   *)
(* an operator from the object it is called on to the object it leaves,    *)
(* what it returns and the Blob Store fetches it made (log).  The Python   *)
(* None is None for a value and NoLocation for a location; a dict is a     *)
(* function on the set of its keys.                                        *)
(***************************************************************************)
None == -1
NoLocation == [tname |-> -1, file |-> "None", start |-> -1, len |-> -1]

\* ModeKeys; the Trial keeps steps under the modes of training
ModeKeys == {"TRAIN", "EVAL", "GLOBAL"}
TrainModes == {"TRAIN", "EVAL"}

\* the reductions (red_name, abs) a producer saves, in a fixed order
Reductions == <<(<<"mean", FALSE>>), (<<"mean", TRUE>>)>>
Reds == {Reductions[i] : i \in 1..Len(Reductions)}

\* IndexReader.fetch_tensor_value(location): the content of the Blob Store
\* at the location
fetch_tensor_value(blob, location) == blob[location]

\* get_numpy_reduction(reduction_name, step_value, abs)
get_numpy_reduction(red, step_value) ==
    10 * step_value + (CHOOSE i \in 1..Len(Reductions) : Reductions[i] = red)

\* a local variable: `body` with the name bound to `value`
Let(value, body(_)) == body(value)

\* Step.__init__
Step(value, location, cache) ==
    [value |-> value, location |-> location, cache |-> cache,
     rvalues |-> <<>>, rlocations |-> <<>>]

\* a Step whose location was given a bool: set_step_value passes the cache
\* flag where Step.__init__ takes the location
BoolLocation(flag) ==
    [tname |-> -2, file |-> IF flag THEN "True" ELSE "False", start |-> -1, len |-> -1]

\* the value property of Step: a value in memory, or fetched from the
\* location and kept when the Step's cache is set
Step_value(s, blob) ==
    IF s.value = None
    THEN IF s.location = NoLocation
         THEN [ret |-> None, step |-> s, log |-> <<>>]
         ELSE LET value == fetch_tensor_value(blob, s.location) IN
              [ret |-> value,
               step |-> IF s.cache THEN [s EXCEPT !.value = value] ELSE s,
               log |-> <<s.location>>]
    ELSE [ret |-> s.value, step |-> s, log |-> <<>>]

\* the keys of a dict among the reductions, in the order of Reductions
Keys(dict) ==
    LET In(red) == red \in DOMAIN dict IN SelectSeq(Reductions, In)

\* Step.reduction_values: the values in memory when there are any, else
\* every reduction location fetched (and kept when the Step's cache is set)
Step_reduction_values(s, blob) ==
    IF DOMAIN s.rvalues = {}
    THEN LET keys == Keys(s.rlocations)
             fetched == [red \in DOMAIN s.rlocations |->
                            fetch_tensor_value(blob, s.rlocations[red])]
         IN  [ret |-> fetched,
              step |-> IF s.cache THEN [s EXCEPT !.rvalues = fetched] ELSE s,
              log |-> [i \in 1..Len(keys) |-> s.rlocations[keys[i]]]]
    ELSE [ret |-> s.rvalues, step |-> s, log |-> <<>>]
\* a Step.reduction_value that finds no reduction
Step_reduction_value_none(s, blob, red) == [ret |-> None, step |-> s, log |-> <<>>]

\* Step.reduction_value: None when (red_name, abs) is not among the values
Step_reduction_value(s, blob, red) ==
    Let(IF DOMAIN s.rvalues = {}
        THEN Step_reduction_values(s, blob)
        ELSE [ret |-> s.rvalues, step |-> s, log |-> <<>>],
        LAMBDA all :
            [ret |-> IF red \in DOMAIN all.ret THEN all.ret[red] ELSE None,
             step |-> all.step,
             log |-> all.log])

\* Step.reduction_location
Step_reduction_location(s, red) ==
    IF red \in DOMAIN s.rlocations THEN s.rlocations[red] ELSE NoLocation

\* Step.set_reduction_value / set_reduction_location
Step_set_reduction_value(s, red, red_value) ==
    [s EXCEPT !.rvalues = (red :> red_value) @@ @]

Step_set_reduction_location(s, red, red_location) ==
    [s EXCEPT !.rlocations = (red :> red_location) @@ @]

\* ModeSteps.steps: the keys of _steps, sorted
RECURSIVE Sorted(_)
Sorted(nums) ==
    IF nums = {} THEN <<>>
    ELSE LET least == CHOOSE n \in nums : \A m \in nums : n <= m
         IN  <<least>> \o Sorted(nums \ {least})

ModeSteps_steps(ms) == Sorted(DOMAIN ms)

\* ModeSteps.has_step
ModeSteps_has_step(ms, step_num) == step_num \in DOMAIN ms

\* ModeSteps.set_step_value; ms is _steps and cache the ModeSteps' flag.  A
\* new Step is made by Step(step_num, value, self.cache): the flag lands in
\* the location parameter and the Step's own cache stays at its default
ModeSteps_set_step_value(ms, cache, step_num, value) ==
    IF step_num \notin DOMAIN ms
    THEN (step_num :> Step(value, BoolLocation(cache), FALSE)) @@ ms
    ELSE [ms EXCEPT ![step_num].value = value]
\* a set_step_location that forgets the other steps when it makes a Step
ModeSteps_set_step_location_alone(ms, cache, step_num, location) ==
    IF step_num \notin DOMAIN ms
    THEN (step_num :> Step(None, location, cache))
    ELSE [ms EXCEPT ![step_num].location = location]

\* ModeSteps.set_step_location
ModeSteps_set_step_location(ms, cache, step_num, location) ==
    IF step_num \notin DOMAIN ms
    THEN (step_num :> Step(None, location, cache)) @@ ms
    ELSE [ms EXCEPT ![step_num].location = location]

\* ModeSteps.set_step_reduction_value
ModeSteps_set_step_reduction_value(ms, cache, step_num, red, red_value) ==
    LET s == IF step_num \notin DOMAIN ms THEN Step(None, NoLocation, cache)
             ELSE ms[step_num]
    IN  (step_num :> Step_set_reduction_value(s, red, red_value)) @@ ms

\* ModeSteps.set_step_reduction_location
ModeSteps_set_step_reduction_location(ms, cache, step_num, red, red_location) ==
    LET s == IF step_num \notin DOMAIN ms THEN Step(None, NoLocation, cache)
             ELSE ms[step_num]
    IN  (step_num :> Step_set_reduction_location(s, red, red_location)) @@ ms

(***************************************************************************)
(* The Trial, as far as the Tensor calls it: it scans the index entries on *)
(* storage, numbers the steps it meets (the global step of a step is the   *)
(* place at which the Trial met it) and hands each entry of the tensor to  *)
(* the Tensor's add_* methods.  A Tensor with its Trial is obj, a record   *)
(* [modes, trial, cache].                                                  *)
(***************************************************************************)
NoError == [name |-> "none", last |-> None, has_reductions |-> FALSE]
Error(name) == [name |-> name, last |-> None, has_reductions |-> FALSE]

\* Trial: the steps met, in the order met, and the entries scanned
NewTrial == [steps |-> <<>>, scanned |-> 0, loaded_all_steps |-> FALSE]

\* Tensor.__init__
Tensor_init(trial, cache) == [modes |-> <<>>, trial |-> trial, cache |-> cache]
\* a _create_mode_step that takes any mode step
Tensor_create_mode_step_unchecked(obj, mode, mode_step) ==
    [obj |-> IF mode \in DOMAIN obj.modes THEN obj
             ELSE [obj EXCEPT !.modes = (mode :> <<>>) @@ @],
     err |-> NoError]

\* Tensor._create_mode_step
Tensor_create_mode_step(obj, mode, mode_step) ==
    IF mode_step < 0 THEN [obj |-> obj, err |-> Error("ValueError")]
    ELSE [obj |-> IF mode \in DOMAIN obj.modes THEN obj
                  ELSE [obj EXCEPT !.modes = (mode :> <<>>) @@ @],
          err |-> NoError]

\* Tensor.add_step
Tensor_add_step(obj, mode, mode_step, value) ==
    LET made == Tensor_create_mode_step(obj, mode, mode_step) IN
    IF made.err # NoError THEN made
    ELSE [made EXCEPT !.obj.modes[mode] =
             ModeSteps_set_step_value(@, obj.cache, mode_step, value)]

\* Tensor.add_reduction_step
Tensor_add_reduction_step(obj, mode, mode_step, red, red_value) ==
    LET made == Tensor_create_mode_step(obj, mode, mode_step) IN
    IF made.err # NoError THEN made
    ELSE [made EXCEPT !.obj.modes[mode] =
             ModeSteps_set_step_reduction_value(@, obj.cache, mode_step, red,
                                                red_value)]
\* an add_step_lazy that makes the ModeSteps before the mode step is tested
Tensor_add_step_lazy_early(obj, mode, mode_step, location) ==
    IF mode_step < 0
    THEN [obj |-> IF mode \in DOMAIN obj.modes THEN obj
                  ELSE [obj EXCEPT !.modes = (mode :> <<>>) @@ @],
          err |-> Error("ValueError")]
    ELSE [obj |-> [obj EXCEPT !.modes =
                      (mode :> ModeSteps_set_step_location(
                                   IF mode \in DOMAIN @ THEN @[mode] ELSE <<>>,
                                   obj.cache, mode_step, location)) @@ @],
          err |-> NoError]

\* Tensor.add_step_lazy
Tensor_add_step_lazy(obj, mode, mode_step, location) ==
    LET made == Tensor_create_mode_step(obj, mode, mode_step) IN
    IF made.err # NoError THEN made
    ELSE [made EXCEPT !.obj.modes[mode] =
             ModeSteps_set_step_location(@, obj.cache, mode_step, location)]

\* Tensor.add_reduction_step_lazy
Tensor_add_reduction_step_lazy(obj, mode, mode_step, red, red_location) ==
    LET made == Tensor_create_mode_step(obj, mode, mode_step) IN
    IF made.err # NoError THEN made
    ELSE [made EXCEPT !.obj.modes[mode] =
             ModeSteps_set_step_reduction_location(@, obj.cache, mode_step, red,
                                                   red_location)]

\* what training saved: the tensor's value at a step of a mode, and the
\* place of an entry on the Blob Store
SavedValue(mode, step) == 2 * step + (IF mode = "TRAIN" THEN 1 ELSE 2)

NoRed == <<"none", FALSE>>

LocationOf(mode, step, red) ==
    [tname |-> IF red = NoRed THEN 0
               ELSE CHOOSE i \in 1..Len(Reductions) : Reductions[i] = red,
     file |-> mode, start |-> step, len |-> 1]

ContentAt(location) ==
    LET value == SavedValue(location.file, location.start) IN
    IF location.tname = 0 THEN value
    ELSE get_numpy_reduction(Reductions[location.tname], value)

\* an index entry of a step: of another tensor ("other"), or of this tensor
\* as a value, a location, a reduction value or a reduction location
EntryKinds == {"other", "value", "location", "rvalue", "rlocation"}

Trial_observe(trial, mode, step) ==
    IF \E i \in 1..Len(trial.steps) : trial.steps[i] = <<mode, step>>
    THEN trial
    ELSE [trial EXCEPT !.steps = Append(@, <<mode, step>>)]

\* the add_* call the Trial makes for an entry of the tensor
Trial_add(obj, entry) ==
    LET loc == LocationOf(entry.mode, entry.step, entry.red)
        add == CASE entry.kind = "value" ->
                      Tensor_add_step(obj, entry.mode, entry.step, ContentAt(loc))
                 [] entry.kind = "location" ->
                      Tensor_add_step_lazy(obj, entry.mode, entry.step, loc)
                 [] entry.kind = "rvalue" ->
                      Tensor_add_reduction_step(obj, entry.mode, entry.step,
                                                entry.red, ContentAt(loc))
                 [] entry.kind = "rlocation" ->
                      Tensor_add_reduction_step_lazy(obj, entry.mode, entry.step,
                                                     entry.red, loc)
                 [] OTHER -> [obj |-> obj, err |-> NoError]
    IN  add.obj

\* the Trial has scanned one more entry
Trial_met(trial, entry) ==
    [Trial_observe(trial, entry.mode, entry.step) EXCEPT !.scanned = @ + 1]

\* Trial.maybe_refresh: the entries not scanned yet, in the order written
RECURSIVE Trial_scan(_, _)
Trial_scan(obj, entries) ==
    IF entries = <<>> THEN obj
    ELSE Let(Trial_add(obj, Head(entries)), LAMBDA added :
             Trial_scan([added EXCEPT !.trial = Trial_met(@, Head(entries))],
                        Tail(entries)))

Trial_maybe_refresh(obj, env) ==
    [Trial_scan(obj, SubSeq(env.storage, obj.trial.scanned + 1, Len(env.storage)))
        EXCEPT !.trial.loaded_all_steps = env.ended]

\* Trial.available_steps(mode)
Trial_available_steps(trial, mode) ==
    IF mode = "GLOBAL" THEN [i \in 1..Len(trial.steps) |-> i - 1]
    ELSE Sorted({trial.steps[i][2] : i \in {j \in 1..Len(trial.steps) :
                                                trial.steps[j][1] = mode}})

\* Trial.global_step(mode, mode_step)
Trial_global_step(trial, mode, mode_step) ==
    IF mode = "GLOBAL" THEN mode_step
    ELSE IF \E i \in 1..Len(trial.steps) : trial.steps[i] = <<mode, mode_step>>
    THEN (CHOOSE i \in 1..Len(trial.steps) : trial.steps[i] = <<mode, mode_step>>) - 1
    ELSE None

\* Trial.mode_modestep(global_step)
Trial_mode_modestep(trial, global_step) ==
    IF global_step + 1 \in 1..Len(trial.steps) THEN trial.steps[global_step + 1]
    ELSE <<"None", None>>

\* Trial.has_passed_step(step, mode): AVAILABLE for a step the Trial has met,
\* UNAVAILABLE for one it has not met while it has met a later one
Trial_has_passed_step(trial, step, mode) ==
    LET steps == Trial_available_steps(trial, mode) IN
    IF \E i \in 1..Len(steps) : steps[i] = step THEN "AVAILABLE"
    ELSE IF \E i \in 1..Len(steps) : steps[i] > step THEN "UNAVAILABLE"
    ELSE "NOT_YET_AVAILABLE"

(***************************************************************************)
(* Tensor: the queries.  env is what lies outside the Tensor: the entries  *)
(* on storage, whether training has ended, and the content of the Blob     *)
(* Store.  A Step is named by its key (mode, step number), since the Step  *)
(* a query returns is the object the Tensor holds.                         *)
(***************************************************************************)
NoKey == [mode |-> "None", step |-> None]

\* what a query returns: a value, a list, a dict, a Step, or Python's None
RetNone == [kind |-> "None", val |-> None, list |-> <<>>, dict |-> <<>>, key |-> NoKey]
RetValue(value) == IF value = None THEN RetNone
                   ELSE [RetNone EXCEPT !.kind = "value", !.val = value]
RetList(list) == [RetNone EXCEPT !.kind = "list", !.list = list]
RetDict(dict) == [RetNone EXCEPT !.kind = "dict", !.dict = dict]
RetStep(key) == [RetNone EXCEPT !.kind = "Step", !.key = key]

\* a query that raised, a query that returned
Raised(obj, error, log) == [obj |-> obj, ret |-> RetNone, err |-> error, log |-> log]
Returned(obj, ret, log) == [obj |-> obj, ret |-> ret, err |-> NoError, log |-> log]

\* Tensor._has_mode_step_currently
Tensor_has_mode_step_currently(modes, step_num, mode) ==
    mode \in DOMAIN modes /\ ModeSteps_has_step(modes[mode], step_num)

\* Tensor._get_step_currently
Tensor_get_step_currently(obj, step_num, mode) ==
    IF /\ mode = "GLOBAL"
       /\ "GLOBAL" \in DOMAIN obj.modes
       /\ ModeSteps_has_step(obj.modes["GLOBAL"], step_num)
    THEN [mode |-> mode, step |-> step_num]
    ELSE Let(IF mode = "GLOBAL" THEN Trial_mode_modestep(obj.trial, step_num)
             ELSE <<mode, step_num>>,
             LAMBDA at :
                 IF Tensor_has_mode_step_currently(obj.modes, at[2], at[1])
                 THEN [mode |-> at[1], step |-> at[2]]
                 ELSE NoKey)
\* a step() that raises StepUnavailable whatever the Trial answered
Tensor_step_error_passed(trial, step_state, mode) == Error("StepUnavailable")

\* the exception step() raises for what has_passed_step answered
Tensor_step_error(trial, step_state, mode) ==
    CASE step_state = "AVAILABLE" -> Error("TensorUnavailableForStep")
      [] step_state = "UNAVAILABLE" -> Error("StepUnavailable")
      [] step_state = "NOT_YET_AVAILABLE" ->
           IF trial.loaded_all_steps
           THEN LET avail_steps == Trial_available_steps(trial, mode) IN
                [Error("NoMoreData") EXCEPT
                    !.last = IF Len(avail_steps) > 0
                             THEN avail_steps[Len(avail_steps)] ELSE -1]
           ELSE Error("StepNotYetAvailable")
\* a step() that, after the refresh, raises whatever it holds
Tensor_step_refreshed_raising(fresh, step_num, mode) ==
    Raised(fresh,
           Tensor_step_error(fresh.trial,
                             Trial_has_passed_step(fresh.trial, step_num, mode), mode),
           <<>>)

\* Tensor.step, after the refresh
Tensor_step_refreshed(fresh, step_num, mode) ==
    Let(Trial_has_passed_step(fresh.trial, step_num, mode), LAMBDA ss :
    Let(Tensor_get_step_currently(fresh, step_num, mode), LAMBDA s :
        IF ss = "AVAILABLE" /\ s # NoKey
        THEN Returned(fresh, RetStep(s), <<>>)
        ELSE Raised(fresh, Tensor_step_error(fresh.trial, ss, mode), <<>>)))
\* a step() that refreshes before it looks in memory
Tensor_step_refreshing(obj, env, step_num, mode) ==
    Tensor_step_refreshed(Trial_maybe_refresh(obj, env), step_num, mode)

\* Tensor.step
Tensor_step(obj, env, step_num, mode) ==
    Let(Tensor_get_step_currently(obj, step_num, mode), LAMBDA s :
        IF s # NoKey THEN Returned(obj, RetStep(s), <<>>)
        ELSE Tensor_step_refreshed(Trial_maybe_refresh(obj, env), step_num, mode))
\* the methods of the Trial that Tensor.step calls, in the order of the
\* calls (mode_modestep, which _get_step_currently calls for a GLOBAL step,
\* left out): none for a step in memory; otherwise maybe_refresh, then
\* has_passed_step, then available_steps for the NoMoreData message
Tensor_step_calls(obj, env, step_num, mode) ==
    IF Tensor_get_step_currently(obj, step_num, mode) # NoKey THEN <<>>
    ELSE Let(Trial_maybe_refresh(obj, env), LAMBDA fresh :
             <<"maybe_refresh", "has_passed_step">> \o
             (IF /\ Trial_has_passed_step(fresh.trial, step_num, mode)
                        = "NOT_YET_AVAILABLE"
                 /\ fresh.trial.loaded_all_steps
              THEN <<"available_steps">> ELSE <<>>))

\* the Step of a key, and the Tensor with that Step replaced
StepAt(obj, key) == obj.modes[key.mode][key.step]
WithStep(obj, key, s) == [obj EXCEPT !.modes[key.mode][key.step] = s]
\* a value() that returns None for a Step without value
Tensor_value_of_none(obj, env, key) ==
    Returned(obj, RetValue(StepAt(obj, key).value), <<>>)

\* Tensor.value, from the Step that step() returned: `s.value` is read for
\* the test and read again for the return
Tensor_value_of(obj, env, key) ==
    Let(Step_value(StepAt(obj, key), env.blob), LAMBDA test :
        IF test.ret # None
        THEN Let(Step_value(test.step, env.blob), LAMBDA again :
                 Returned(WithStep(obj, key, again.step), RetValue(again.ret),
                          test.log \o again.log))
        ELSE IF test.step.location # NoLocation
        THEN Let(fetch_tensor_value(env.blob, test.step.location), LAMBDA value :
                 Returned(WithStep(obj, key,
                                   IF obj.cache THEN [test.step EXCEPT !.value = value]
                                   ELSE test.step),
                          RetValue(value), test.log \o <<test.step.location>>))
        ELSE Let(Step_reduction_values(test.step, env.blob), LAMBDA all :
                 Raised(WithStep(obj, key, all.step),
                        [Error("TensorUnavailableForStep") EXCEPT
                            !.has_reductions = DOMAIN all.ret # {}],
                        test.log \o all.log)))

\* Tensor.value
Tensor_value(obj, env, step_num, mode) ==
    Let(Tensor_step(obj, env, step_num, mode), LAMBDA found :
        IF found.err # NoError THEN found
        ELSE Tensor_value_of(found.obj, env, found.ret.key))

\* Tensor.reduction_values
Tensor_reduction_values(obj, env, step_num, mode) ==
    Let(Tensor_step(obj, env, step_num, mode), LAMBDA found :
        IF found.err # NoError THEN found
        ELSE Let(Step_reduction_values(StepAt(found.obj, found.ret.key), env.blob),
                 LAMBDA all :
                     Returned(WithStep(found.obj, found.ret.key, all.step),
                              RetDict(all.ret), all.log)))
\* a reduction_value that stores the reduction it computed on the Step
Tensor_reduction_value_stored(obj, env, key, red, s, log) ==
    Returned(WithStep(obj, key,
                      Step_set_reduction_value(
                          Step_value(s, env.blob).step, red,
                          get_numpy_reduction(red, Step_value(s, env.blob).ret))),
             RetValue(get_numpy_reduction(red, Step_value(s, env.blob).ret)),
             log \o Step_value(s, env.blob).log)

\* Tensor.reduction_value when the step holds neither the reduction nor its
\* location: the reduction computed from the value of the step; a step
\* without value and without location has its (absent) location fetched,
\* which raises
Tensor_reduction_value_computed(obj, env, key, red, s, log) ==
    Let(Step_value(s, env.blob), LAMBDA test :
        IF test.ret = None
        THEN Raised(WithStep(obj, key, test.step), Error("AttributeError"),
                    log \o test.log \o <<test.step.location>>)
        ELSE Let(Step_value(test.step, env.blob), LAMBDA again :
                 Returned(WithStep(obj, key, again.step),
                          RetValue(get_numpy_reduction(red, again.ret)),
                          log \o test.log \o again.log)))

\* Tensor.reduction_value, from the Step that step() returned: the
\* reduction in memory, else the reduction at its location, else computed
Tensor_reduction_value_of(obj, env, key, red) ==
    Let(Step_reduction_value(StepAt(obj, key), env.blob, red), LAMBDA rv :
    Let(Step_reduction_location(rv.step, red), LAMBDA rl :
        IF rv.ret # None
        THEN Returned(WithStep(obj, key, rv.step), RetValue(rv.ret), rv.log)
        ELSE IF rl # NoLocation
        THEN Returned(WithStep(obj, key, rv.step),
                      RetValue(fetch_tensor_value(env.blob, rl)), rv.log \o <<rl>>)
        ELSE Tensor_reduction_value_computed(obj, env, key, red, rv.step, rv.log)))

\* Tensor.reduction_value
Tensor_reduction_value(obj, env, step_num, red, mode) ==
    Let(Tensor_step(obj, env, step_num, mode), LAMBDA found :
        IF found.err # NoError THEN found
        ELSE Tensor_reduction_value_of(found.obj, env, found.ret.key, red))

\* Tensor._global_steps: the global step of every step of every mode, sorted
RECURSIVE SortedGlobal(_, _)
SortedGlobal(trial, held) ==
    IF held = {} THEN <<>>
    ELSE LET G(at) == Trial_global_step(trial, at[1], at[2])
             least == CHOOSE at \in held : \A other \in held : G(at) <= G(other)
         IN  <<G(least)>> \o SortedGlobal(trial, held \ {least})
\* a _global_steps that lists the mode steps as they are
Tensor_global_steps_untranslated(obj) ==
    Sorted(UNION {DOMAIN obj.modes[mode] : mode \in DOMAIN obj.modes})

Tensor_global_steps(obj) ==
    SortedGlobal(obj.trial,
                 UNION {{<<mode, s>> : s \in DOMAIN obj.modes[mode]} :
                           mode \in DOMAIN obj.modes})

\* Tensor.steps
Tensor_steps(obj, env, mode) ==
    Let(Trial_maybe_refresh(obj, env), LAMBDA fresh :
        IF mode = "GLOBAL"
        THEN Returned(fresh, RetList(Tensor_global_steps(fresh)), <<>>)
        ELSE IF mode \in DOMAIN fresh.modes
        THEN Returned(fresh, RetList(ModeSteps_steps(fresh.modes[mode])), <<>>)
        ELSE Returned(fresh, RetNone, <<>>))

\* bisect.bisect_right(a, x), with a[mid] counted from 0
RECURSIVE bisect_right(_, _, _, _)
bisect_right(a, x, lo, hi) ==
    IF lo < hi
    THEN LET mid == (lo + hi) \div 2 IN
         IF x < a[mid + 1] THEN bisect_right(a, x, lo, mid)
         ELSE bisect_right(a, x, mid + 1, hi)
    ELSE lo

\* prev_steps[-n:] for n > 0
LastN(list, n) ==
    SubSeq(list, IF Len(list) > n THEN Len(list) - n + 1 ELSE 1, Len(list))

\* `if n:`: n is neither None nor 0
Truthy(n) == n # None /\ n # 0

\* Tensor.prev_steps, from the list steps() returned
Tensor_prev_steps_of(steps, step, n) ==
    Let(SubSeq(steps, 1, bisect_right(steps, step, 0, Len(steps))),
        LAMBDA prev_steps :
            IF Truthy(n) THEN LastN(prev_steps, n) ELSE prev_steps)

\* Tensor.prev_steps; n = None stands for the default.  bisect raises on the
\* None steps() returns for a mode the tensor has no step of
Tensor_prev_steps(obj, env, step, n, mode) ==
    Let(Tensor_steps(obj, env, mode), LAMBDA got :
        IF got.ret.kind = "None" THEN Raised(got.obj, Error("TypeError"), <<>>)
        ELSE Returned(got.obj, RetList(Tensor_prev_steps_of(got.ret.list, step, n)),
                      <<>>))

(***************************************************************************)
(* Training writes index entries; a caller queries the two Tensors, one    *)
(* made with cache = TRUE and one with cache = FALSE, with the same calls. *)
(***************************************************************************)
MaxStep == 1       \* mode steps are 0..MaxStep
MaxEntries == 2    \* index entries training writes in one behaviour
MaxListEntries == 3    \* index entries when only the step lists are asked for
MaxN == 2          \* prev_steps is asked for up to MaxN steps

Entries ==
    {e \in [mode : TrainModes, step : 0..MaxStep, kind : EntryKinds,
            red : Reds \cup {NoRed}] :
        (e.red # NoRed) <=> (e.kind \in {"rvalue", "rlocation"})}

Locations ==
    {LocationOf(mode, step, red) :
        mode \in TrainModes, step \in 0..MaxStep, red \in Reds \cup {NoRed}}

Blob == [location \in Locations |-> ContentAt(location)]

Env == [storage |-> storage, ended |-> ended, blob |-> Blob]

\* training saves an entry, one of `entries`, while fewer than `limit` are
\* saved
Train(entries, limit) ==
    /\ ~ended
    /\ Len(storage) < limit
    /\ \E entry \in entries : storage' = Append(storage, entry)
    /\ UNCHANGED <<tensors, ended, pushed, writer, files, handle>>

\* training ends
TrainEnd ==
    /\ ~ended
    /\ ended' = TRUE
    /\ UNCHANGED <<tensors, storage, pushed, writer, files, handle>>

\* both Tensors after the same query
After(result) == [c \in BOOLEAN |-> result[c].obj]

QueryStep ==
    \E step \in 0..MaxStep, mode \in ModeKeys :
        /\ tensors' = After([c \in BOOLEAN |->
                                Tensor_step(tensors[c], Env, step, mode)])
        /\ UNCHANGED <<storage, ended, pushed, writer, files, handle>>

QueryValue ==
    \E step \in 0..MaxStep, mode \in ModeKeys :
        /\ tensors' = After([c \in BOOLEAN |->
                                Tensor_value(tensors[c], Env, step, mode)])
        /\ UNCHANGED <<storage, ended, pushed, writer, files, handle>>

QueryReductionValues ==
    \E step \in 0..MaxStep, mode \in ModeKeys :
        /\ tensors' = After([c \in BOOLEAN |->
                                Tensor_reduction_values(tensors[c], Env, step, mode)])
        /\ UNCHANGED <<storage, ended, pushed, writer, files, handle>>

QueryReductionValue ==
    \E step \in 0..MaxStep, mode \in ModeKeys, red \in Reds :
        /\ tensors' = After([c \in BOOLEAN |->
                                Tensor_reduction_value(tensors[c], Env, step, red,
                                                       mode)])
        /\ UNCHANGED <<storage, ended, pushed, writer, files, handle>>

QuerySteps ==
    \E mode \in ModeKeys :
        /\ tensors' = After([c \in BOOLEAN |-> Tensor_steps(tensors[c], Env, mode)])
        /\ UNCHANGED <<storage, ended, pushed, writer, files, handle>>

QueryPrevSteps ==
    \E step \in 0..MaxStep, mode \in ModeKeys, n \in {None} \cup 0..MaxN :
        /\ tensors' = After([c \in BOOLEAN |->
                                Tensor_prev_steps(tensors[c], Env, step, n, mode)])
        /\ UNCHANGED <<storage, ended, pushed, writer, files, handle>>

\* Resolving a step: training saves the tensor at a location at some steps,
\* other tensors at others and, while in TRAIN, the tensor's value itself or
\* only a reduction of it
ResolveEntries ==
    {e \in Entries : \/ e.kind \in {"other", "location"}
                     \/ e.mode = "TRAIN" /\ e.kind = "value"
                     \/ e.mode = "TRAIN" /\ e.kind = "rlocation"
                        /\ e.red = Reductions[1]}

NextResolve ==
    \/ Train(ResolveEntries, MaxEntries)
    \/ TrainEnd
    \/ QueryStep
    \/ QueryValue
    \/ QuerySteps

ResolveSpec == Init /\ [][NextResolve]_vars

\* Values and reductions of the steps of one mode, held in memory or at a
\* location
CacheEntries == {e \in Entries : e.mode = "TRAIN" /\ e.kind # "other"}

NextCache ==
    \/ Train(CacheEntries, MaxEntries)
    \/ QueryValue
    \/ QueryReductionValues
    \/ QueryReductionValue
    \/ QuerySteps

CacheSpec == Init /\ [][NextCache]_vars

\* The step lists of a tensor saved at steps of two modes, among steps of
\* other tensors
ListEntries == {e \in Entries : e.kind \in {"other", "location"}}

NextList ==
    \/ Train(ListEntries, MaxListEntries)
    \/ QuerySteps
    \/ QueryPrevSteps

ListSpec == Init /\ [][NextList]_vars
(***************************************************************************)
(* The in-memory store: besides what the Trial finds on storage, a caller  *)
(* pushes values, locations and reductions to the Tensors with add_* calls *)
(* of its own, some of them with a negative mode step.                     *)
(***************************************************************************)
MaxPushes == 2     \* add_* calls of a caller and entries of training, together

Calls ==
    {e \in [mode : TrainModes, step : -1..MaxStep, kind : EntryKinds \ {"other"},
            red : {Reductions[1], NoRed}] :
        /\ (e.red # NoRed) <=> (e.kind \in {"rvalue", "rlocation"})
        /\ e.mode = "TRAIN" \/ e.kind = "location"}

\* Tensor.add_step / add_step_lazy / add_reduction_step /
\* add_reduction_step_lazy, as the call names it
Tensor_add(obj, call) ==
    CASE call.kind = "value" ->
           Tensor_add_step(obj, call.mode, call.step,
                           SavedValue(call.mode, call.step))
      [] call.kind = "location" ->
           Tensor_add_step_lazy(obj, call.mode, call.step,
                                LocationOf(call.mode, call.step, NoRed))
      [] call.kind = "rvalue" ->
           Tensor_add_reduction_step(
               obj, call.mode, call.step, call.red,
               get_numpy_reduction(call.red, SavedValue(call.mode, call.step)))
      [] call.kind = "rlocation" ->
           Tensor_add_reduction_step_lazy(
               obj, call.mode, call.step, call.red,
               LocationOf(call.mode, call.step, call.red))

\* a caller makes the same add_* call on both Tensors, while the calls made
\* and the entries training saved are fewer than MaxPushes together
Push ==
    /\ Len(pushed) + Len(storage) < MaxPushes
    /\ \E call \in Calls :
        /\ tensors' = [c \in BOOLEAN |-> Tensor_add(tensors[c], call).obj]
        /\ pushed' = Append(pushed,
                            [call |-> call,
                             raised |-> [c \in BOOLEAN |->
                                            Tensor_add(tensors[c], call).err.name]])
    /\ UNCHANGED <<storage, ended, writer, files, handle>>

\* what the Trial finds on storage while a caller pushes: training saves
\* the tensor at a location, one entry for every call the caller leaves out
StoreEntries == {e \in Entries : e.mode = "TRAIN" /\ e.kind = "location"}

NextStore ==
    \/ Push
    \/ Train(StoreEntries, MaxPushes - Len(pushed))
    \/ QueryStep
    \/ QueryValue
    \/ QueryReductionValues
    \/ QueryReductionValue
    \/ QuerySteps
    \/ QueryPrevSteps

StoreSpec == Init /\ [][NextStore]_vars

TypeOK ==
    /\ Len(queue) <= MaxQueue
    /\ unfinished \in 0..(MaxEvents + 2)
    /\ outstanding \in 0..MaxEvents

(***************************************************************************)
(* What the logs hold, and the returns of the blocking methods.            *)
(***************************************************************************)
EventIds(evs) == [i \in 1..Len(evs) |-> evs[i].id]
Range(seq) == {seq[i] : i \in 1..Len(seq)}

\* the ids of the events appended to a log, in the order of the appends
AppliedTo(log) ==
    LET To(a) == a[1] = log
        appends == SelectSeq(applied, To)
    IN  [i \in 1..Len(appends) |-> appends[i][2]]

\* the members of ids that log holds, in the order of the log
Restrict(log, ids) == LET Keep(x) == x \in ids IN SelectSeq(log, Keep)

\* every event of evs has been appended to the Record Log, every indexed one
\* to the Index Log, and both in the order of evs
AppliedInOrder(evs) ==
    LET Indexed(ev) == ev.indexed
        indexed == SelectSeq(evs, Indexed)
    IN  /\ Restrict(AppliedTo("record"), Range(EventIds(evs))) = EventIds(evs)
        /\ Restrict(AppliedTo("index"), Range(EventIds(indexed))) = EventIds(indexed)

FlushReturns(t) == pc[t] = "fl_flush" /\ pc'[t] = "idle"
CloseReturns(t) == pc[t] = "cl_rec" /\ pc'[t] = "idle"
Failed == {w \in Workers : wstate[w] = "failed"}
Running == {w \in Workers : wstate[w] \in {"get", "write", "index"}}

(***************************************************************************)
(* C1.  When flush() or close() returns, every event whose put had         *)
(* returned before the call began is in the Record Log (and, if indexed,   *)
(* in the Index Log), and the logs hold those events in put order.         *)
(***************************************************************************)
C1_DrainedOnReturn ==
    [][\A t \in Threads :
         (FlushReturns(t) \/ CloseReturns(t))
            => AppliedInOrder(SubSeq(enq, 1, snap[t]))]_vars

(***************************************************************************)
(* C2.  Events put on a freshly constructed pipeline, then one close()     *)
(* that no put outlasts: once that close() has returned, the record file   *)
(* holds exactly one record per event put and the index file exactly one   *)
(* line per indexed event, both in put order (so each producer's entries   *)
(* are in that producer's order).                                          *)
(***************************************************************************)
FirstCloseDone == closed /\ Cardinality(Started) = 1 /\ queue = <<>>

C2_NoneLostNoneDuplicated ==
    FirstCloseDone =>
        LET Indexed(ev) == ev.indexed
            record == files[Permanent("record")].data
            index == files[Permanent("index")].data
        IN  /\ [i \in 1..Len(record) |-> record[i].id] = EventIds(enq)
            /\ [i \in 1..Len(index) |-> index[i].tname]
                 = EventIds(SelectSeq(enq, Indexed))

C2_Witness ==
    /\ FirstCloseDone
    /\ Len(enq) = 2
    /\ \A i \in 1..Len(enq) : enq[i].indexed
    /\ Len(files[Permanent("index")].data) = 2

(***************************************************************************)
(* C3.  A close() on an open pipeline returns in the end, whatever the     *)
(* producers do meanwhile, and when it returns the worker thread has       *)
(* ended and both logs are closed.                                         *)
(***************************************************************************)
C3_CloseReturns ==
    /\ \A t \in Threads : (pc[t] = "cl_put") ~> (pc[t] = "idle")
    /\ [][\A t \in Threads :
            CloseReturns(t) => (Ended(wstate[worker]) /\ ~idxOpen' /\ ~recOpen')]_vars

(***************************************************************************)
(* C4.  The queue never holds more than max_queue events; a producer that  *)
(* finds it full waits with its event, and that event is put and written   *)
(* in the end.                                                             *)
(***************************************************************************)
C4_Backpressure ==
    /\ [](Len(queue) <= MaxQueue)
    /\ [][\A t \in Threads :
            (pc[t] = "put" /\ ~CanPut(queue))
               => (pc'[t] = "put" /\ pend'[t] = pend[t])]_vars
    /\ \A n \in 1..MaxEvents :
         (\E t \in Threads : pc[t] = "put" /\ pend[t].id = n /\ ~CanPut(queue))
            ~> (n \in Range(AppliedTo("record")))

(***************************************************************************)
(* C5.  Once a write has failed on a worker thread, no flush() or close()  *)
(* returns as if nothing had happened and no write_event is taken in as if *)
(* nothing had happened: the failure is reported to the caller.            *)
(***************************************************************************)
Accepted(t) == pc[t] = "idle" /\ pc'[t] = "put"

C5_FailureSurfaced ==
    [][\A t \in Threads :
         (FlushReturns(t) \/ CloseReturns(t) \/ Accepted(t)) => Failed = {}]_vars

(***************************************************************************)
(* C6.  An event issued while the pipeline is closed (after close() has    *)
(* returned, before reopen() has reopened it) is nowhere: not in the       *)
(* queue, not with a worker, in no log, and it stays so after reopen().    *)
(***************************************************************************)
C6_LateWritesRejected ==
    \A n \in lateIds :
        /\ n \notin Range(EventIds(queue))
        /\ n \notin Range(EventIds(enq))
        /\ \A t \in Threads : pend[t].id # n
        /\ \A w \in Workers : wcur[w].id # n
        /\ \A i \in 1..Len(applied) : applied[i][2] # n
        /\ \A place \in Places :
             \A i \in 1..Len(files[place].data) :
                 LET item == files[place].data[i] IN
                 IF place.name = "index" THEN item.tname # n ELSE item.id # n

\* an event was rejected, the pipeline was reopened, and a later event written
C6_Witness ==
    \E n \in lateIds :
        /\ Cardinality(Started) >= 2
        /\ \E i \in 1..Len(applied) : applied[i][2] > n

(***************************************************************************)
(* C7.  reopen() on a pipeline that is not closed changes nothing; on a    *)
(* closed pipeline it starts one new worker thread on the same queue and   *)
(* the same EventsWriter, whose writers and files it leaves as they are,   *)
(* and when it returns write_event takes events in again.                  *)
(***************************************************************************)
ReopenTests(t) == pc[t] = "ro_check" /\ pc'[t] # "ro_check"

C7_Reopen ==
    [][\A t \in Threads :
         /\ (ReopenTests(t) /\ ~closed)
              => /\ pc'[t] = "idle"
                 /\ UNCHANGED <<queue, unfinished, closed, worker, wstate, wcur,
                                recOpen, idxOpen, outstanding, files>>
         /\ (ReopenTests(t) /\ closed)
              => /\ worker' \notin Started
                 /\ wstate' = [wstate EXCEPT ![worker'] = "get"]
                 /\ UNCHANGED <<queue, unfinished, recOpen, idxOpen,
                                outstanding, files>>
         /\ (pc[t] = "ro_set" /\ pc'[t] = "idle") => Accepts(closed')]_vars

\* the worker reopen() started holds an event issued after a rejected one
C7_Witness ==
    /\ Cardinality(Started) = 2
    /\ ~closed
    /\ wstate[2] = "write"
    /\ \E n \in lateIds : wcur[2].id > n

C9_OnlyWorkerTouchesLogs ==
    [][\A t \in Threads :
         (FlushReturns(t) /\ Failed = {})
            => ~EventsWriter_flushes(recOpen, outstanding)]_vars

(***************************************************************************)
(* C10.  As stated: as long as no tensor has been written there is no      *)
(* index file and no record file, under any path.                          *)
(***************************************************************************)
C10_FilesMadeOnFirstWrite ==
    applied = <<>> => \A place \in Places : ~files[place].exists

(***************************************************************************)
(* C10, amended.  The constructor opens the Index Log at once: while no    *)
(* tensor has been written the open IndexWriter has an empty file at the   *)
(* temporary path, and once close() has closed it an empty index file is   *)
(* at the permanent path.  The record writer also exists from the          *)
(* constructor to the first close().                                       *)
(***************************************************************************)
C10_IndexOpenedByConstructor ==
    /\ applied = <<>> =>
         IF idxOpen
         THEN files[get_temp_path(Permanent("index"))] = Empty
         ELSE files[Permanent("index")] = Empty
    /\ (Cardinality(Started) = 1 /\ ~closed) => recOpen

C10_Witness ==
    /\ closed
    /\ applied = <<>>
    /\ enq = <<>>
    /\ files[Permanent("index")] = Empty

(***************************************************************************)
(* C11.  A local file opened in a write or append mode: while the handle   *)
(* is open the file at the permanent path is what it was when the handle   *)
(* was opened, so nothing written through the handle is visible there;     *)
(* once the handle is closed the file at the permanent path exists and     *)
(* ends with everything written through the handle, in the order written.  *)
(***************************************************************************)
EndsWith(data, tail) ==
    /\ Len(tail) <= Len(data)
    /\ SubSeq(data, Len(data) - Len(tail) + 1, Len(data)) = tail

C11_VisibleOnlyAfterClose ==
    /\ handle.state = "open" => files[Permanent(handle.path)] = handle.before
    /\ handle.state = "closed" =>
         /\ files[Permanent(handle.path)].exists
         /\ EndsWith(files[Permanent(handle.path)].data, handle.written)

\* an append-mode handle found an old file at the temporary path, two writes
\* went through it and close() replaced an older file at the permanent path
C11_Witness ==
    /\ handle.state = "closed"
    /\ handle.mode \in APPEND_MODES
    /\ Len(handle.written) = MaxWrites
    /\ Len(files[Permanent(handle.path)].data) > MaxWrites
    /\ handle.before.exists

(***************************************************************************)
(* The Tensor Query Engine's claims.  A claim about a query is stated of   *)
(* the result the query gives in a state, for every input of the query.    *)
(***************************************************************************)
StepInputs == (0..MaxStep) \X ModeKeys

\* the last step the Trial has of a mode, -1 when it has none
LastAvailable(trial, mode) ==
    IF mode = "GLOBAL" THEN Len(trial.steps) - 1
    ELSE LET met == {trial.steps[i][2] : i \in {j \in 1..Len(trial.steps) :
                                                    trial.steps[j][1] = mode}}
         IN  IF met = {} THEN -1 ELSE CHOOSE s \in met : \A o \in met : o <= s

\* r is what step(S, M) gave: it raised, S not being in memory after the
\* refresh
StepAbsent(r, S, M) ==
    r.err # NoError /\ Tensor_get_step_currently(r.obj, S, M) = NoKey

\* C12 as stated: Tensor.step(S, M) for a step S that is not in memory after
\* the refresh raises one of StepUnavailable, StepNotYetAvailable and
\* NoMoreData
C12_OneOfThreeErrors ==
    \A c \in BOOLEAN, in \in StepInputs :
        LET r == Tensor_step(tensors[c], Env, in[1], in[2]) IN
        StepAbsent(r, in[1], in[2]) =>
            r.err.name \in {"StepUnavailable", "StepNotYetAvailable", "NoMoreData"}

\* C12 amended: Tensor.step(S, M) for a step S that is not in memory after
\* the refresh raises the error the Trial's answer for (S, M) selects:
\* TensorUnavailableForStep when the Trial has the step (AVAILABLE),
\* StepUnavailable when the Trial has passed it (UNAVAILABLE), and when the
\* Trial has not reached it (NOT_YET_AVAILABLE) StepNotYetAvailable while
\* loaded_all_steps is false and NoMoreData carrying the last available step
\* of the mode (-1 when there is none) once loaded_all_steps is true
C12_ErrorByTrialAnswer ==
    \A c \in BOOLEAN, in \in StepInputs :
        LET r == Tensor_step(tensors[c], Env, in[1], in[2])
            ss == Trial_has_passed_step(r.obj.trial, in[1], in[2])
        IN  StepAbsent(r, in[1], in[2]) =>
                /\ ss = "AVAILABLE" =>
                       r.err = Error("TensorUnavailableForStep")
                /\ ss = "UNAVAILABLE" => r.err = Error("StepUnavailable")
                /\ ss = "NOT_YET_AVAILABLE" /\ ~ended =>
                       r.err = Error("StepNotYetAvailable")
                /\ ss = "NOT_YET_AVAILABLE" /\ ended =>
                       /\ r.err.name = "NoMoreData"
                       /\ r.err.last = LastAvailable(r.obj.trial, in[2])

\* training has ended and step() of a step after the last one the Trial has
\* raises NoMoreData with that last step
C12_Witness ==
    \E c \in BOOLEAN, in \in StepInputs :
        LET r == Tensor_step(tensors[c], Env, in[1], in[2]) IN
        /\ StepAbsent(r, in[1], in[2])
        /\ r.err.name = "NoMoreData"
        /\ r.err.last >= 0

StepErrors ==
    {"StepUnavailable", "StepNotYetAvailable", "TensorUnavailableForStep",
     "NoMoreData"}

\* the Step that step(S, M) returned, s being what step(S, M) gave
StepFound(s) == StepAt(s.obj, s.ret.key)

\* C13: Tensor.step(S, M) and Tensor.value(S, M) never return None: each
\* returns a Step / a value or raises one of StepUnavailable,
\* StepNotYetAvailable, TensorUnavailableForStep and NoMoreData; value() on a
\* step that has neither a value in memory nor a location raises
\* TensorUnavailableForStep, which says whether the step has reductions
C13_NeverNone ==
    \A c \in BOOLEAN, in \in StepInputs :
        LET s == Tensor_step(tensors[c], Env, in[1], in[2])
            v == Tensor_value(tensors[c], Env, in[1], in[2])
        IN  /\ IF s.err = NoError THEN s.ret.kind = "Step"
               ELSE s.err.name \in StepErrors
            /\ IF v.err = NoError THEN v.ret.kind = "value"
               ELSE v.err.name \in StepErrors
            /\ s.err = NoError
               /\ StepFound(s).value = None
               /\ StepFound(s).location = NoLocation
               => v.err = [Error("TensorUnavailableForStep") EXCEPT
                              !.has_reductions =
                                  DOMAIN StepFound(s).rvalues
                                  \cup DOMAIN StepFound(s).rlocations # {}]

\* value() of a step saved only as a reduction raises
\* TensorUnavailableForStep saying that the step has reductions, and value()
\* of another step returns a value
C13_Witness ==
    /\ \E c \in BOOLEAN, in \in StepInputs :
        LET s == Tensor_step(tensors[c], Env, in[1], in[2]) IN
        /\ s.err = NoError
        /\ StepFound(s).value = None
        /\ StepFound(s).location = NoLocation
        /\ Tensor_value(tensors[c], Env, in[1], in[2]).err.has_reductions
    /\ \E c \in BOOLEAN, in \in StepInputs :
        Tensor_value(tensors[c], Env, in[1], in[2]).ret.kind = "value"

\* the Step that step(S, M) returned is known only by its location
OnlyLocation(s) ==
    /\ s.err = NoError
    /\ StepFound(s).value = None
    /\ StepFound(s).location \in Locations
    /\ DOMAIN StepFound(s).rvalues = {}
    /\ DOMAIN StepFound(s).rlocations = {}

\* C14: for a step known only by its location, two consecutive value()
\* calls fetch from the Blob Store once in total when the cache flag is
\* enabled, and once per call when it is disabled
C14_FetchesPerValue ==
    \A c \in BOOLEAN, in \in StepInputs :
        LET first == Tensor_value(tensors[c], Env, in[1], in[2])
            second == Tensor_value(first.obj, Env, in[1], in[2])
        IN  OnlyLocation(Tensor_step(tensors[c], Env, in[1], in[2])) =>
                IF c THEN Len(first.log) + Len(second.log) = 1
                ELSE Len(first.log) = 1 /\ Len(second.log) = 1

\* the half of C14 about the enabled cache, and what the disabled cache
\* does: two fetches per call
C14_FetchesInCode ==
    \A c \in BOOLEAN, in \in StepInputs :
        LET first == Tensor_value(tensors[c], Env, in[1], in[2])
            second == Tensor_value(first.obj, Env, in[1], in[2])
        IN  OnlyLocation(Tensor_step(tensors[c], Env, in[1], in[2])) =>
                IF c THEN Len(first.log) + Len(second.log) = 1
                ELSE Len(first.log) = 2 /\ Len(second.log) = 2

\* two calls returned the same or raised the same
SameResult(a, b) == a.ret = b.ret /\ a.err = b.err

\* C15: the cache flag does not change results: after the same add_* and
\* query calls, the Tensor with the cache enabled and the Tensor with the
\* cache disabled return the same value or raise the same error at every
\* value, reduction_value and reduction_values call
C15_CacheChangesNothing ==
    \A in \in StepInputs :
        /\ SameResult(Tensor_value(tensors[TRUE], Env, in[1], in[2]),
                      Tensor_value(tensors[FALSE], Env, in[1], in[2]))
        /\ SameResult(Tensor_reduction_values(tensors[TRUE], Env, in[1], in[2]),
                      Tensor_reduction_values(tensors[FALSE], Env, in[1], in[2]))
        /\ \A red \in Reds :
            SameResult(Tensor_reduction_value(tensors[TRUE], Env, in[1], red, in[2]),
                       Tensor_reduction_value(tensors[FALSE], Env, in[1], red, in[2]))

\* the Step that step(S, M) returned was stored only as the reduction red:
\* it has no value, no location and no other reduction
OnlyReduction(s, red) ==
    /\ s.err = NoError
    /\ StepFound(s).value = None
    /\ StepFound(s).location = NoLocation
    /\ DOMAIN StepFound(s).rvalues \cup DOMAIN StepFound(s).rlocations = {red}

\* the reduction a Step holds: the one in memory, else the content of the
\* Blob Store at the reduction's location
StoredReduction(s, red) ==
    IF red \in DOMAIN s.rvalues THEN s.rvalues[red] ELSE Blob[s.rlocations[red]]

\* C16: reduction_value(S, r, M, abs) of a step stored only as the reduction
\* (r, abs), in memory or at a location, returns that stored reduction and
\* fetches no full value of the tensor
C16_StoredReductionReturned ==
    \A c \in BOOLEAN, in \in StepInputs, red \in Reds :
        LET s == Tensor_step(tensors[c], Env, in[1], in[2])
            r == Tensor_reduction_value(tensors[c], Env, in[1], red, in[2])
        IN  OnlyReduction(s, red) =>
                /\ r.err = NoError
                /\ r.ret = RetValue(StoredReduction(StepFound(s), red))
                /\ \A i \in 1..Len(r.log) :
                       r.log[i].tname # 0 /\ r.log[i] # NoLocation

\* a step stored only as a reduction location, whose reduction
\* reduction_value fetches, and a step stored only as a reduction in memory
C16_Witness ==
    /\ \E c \in BOOLEAN, in \in StepInputs, red \in Reds :
        LET s == Tensor_step(tensors[c], Env, in[1], in[2])
            r == Tensor_reduction_value(tensors[c], Env, in[1], red, in[2])
        IN  /\ OnlyReduction(s, red)
            /\ red \notin DOMAIN StepFound(s).rvalues
            /\ Len(r.log) = 1
            /\ r.ret.kind = "value"
    /\ \E c \in BOOLEAN, in \in StepInputs, red \in Reds :
        LET s == Tensor_step(tensors[c], Env, in[1], in[2]) IN
        /\ OnlyReduction(s, red)
        /\ red \notin DOMAIN StepFound(s).rlocations

\* the Step that step(S, M) returned was stored as a full value only, in
\* memory or at a location: it has no reduction
OnlyValue(s) ==
    /\ s.err = NoError
    /\ StepFound(s).value # None \/ StepFound(s).location \in Locations
    /\ DOMAIN StepFound(s).rvalues = {}
    /\ DOMAIN StepFound(s).rlocations = {}

\* the full value of a Step
FullValue(s) == IF s.value # None THEN s.value ELSE Blob[s.location]

\* C17 as stated: for a step stored as a full value only, with the cache
\* flag enabled reduction_value stores the computed reduction on the Step
\* (so that a second call returns the stored reduction)
C17_ComputedReductionStored ==
    \A in \in StepInputs, red \in Reds :
        LET s == Tensor_step(tensors[TRUE], Env, in[1], in[2])
            first == Tensor_reduction_value(tensors[TRUE], Env, in[1], red, in[2])
            after == StepAt(first.obj, s.ret.key)
        IN  OnlyValue(s) =>
                /\ red \in DOMAIN after.rvalues
                /\ after.rvalues[red] =
                       get_numpy_reduction(red, FullValue(StepFound(s)))

\* C17 amended: for a step stored as a full value only, reduction_value
\* computes the reduction from the full value at every call and never
\* stores the computed reduction on the Step; what the enabled cache keeps
\* is the full value fetched from the step's location, so that a second
\* call computes the same reduction from the kept value without a fetch,
\* while with the cache disabled the second call fetches the full value
\* again
C17_FullValueKept ==
    \A c \in BOOLEAN, in \in StepInputs, red \in Reds :
        LET found == Tensor_step(tensors[c], Env, in[1], in[2])
            s == StepFound(found)
            first == Tensor_reduction_value(tensors[c], Env, in[1], red, in[2])
            second == Tensor_reduction_value(first.obj, Env, in[1], red, in[2])
            after == StepAt(first.obj, found.ret.key)
        IN  OnlyValue(found) =>
                /\ first.err = NoError /\ second.err = NoError
                /\ first.ret = RetValue(get_numpy_reduction(red, FullValue(s)))
                /\ second.ret = first.ret
                /\ DOMAIN after.rvalues = {}
                /\ DOMAIN StepAt(second.obj, found.ret.key).rvalues = {}
                /\ s.value = None /\ c =>
                       /\ after.value = FullValue(s)
                       /\ first.log = <<s.location>>
                       /\ second.log = <<>>
                /\ s.value = None /\ ~c =>
                       /\ after.value = None
                       /\ second.log # <<>>
                       /\ \A i \in 1..Len(second.log) : second.log[i] = s.location
                /\ s.value # None => first.log = <<>> /\ second.log = <<>>

\* after a first call: the Tensor with the cache enabled has kept the full
\* value of a step stored at a location, the other Tensor has not, and a
\* second reduction_value computes the reduction, the first without a
\* fetch and the second with one
C17_Witness ==
    \E in \in StepInputs, red \in Reds :
        LET kept == Tensor_step(tensors[TRUE], Env, in[1], in[2])
            bare == Tensor_step(tensors[FALSE], Env, in[1], in[2])
            cached == Tensor_reduction_value(tensors[TRUE], Env, in[1], red, in[2])
            fetched == Tensor_reduction_value(tensors[FALSE], Env, in[1], red, in[2])
        IN  /\ OnlyValue(kept) /\ OnlyValue(bare)
            /\ StepFound(kept).location \in Locations
            /\ StepFound(kept).value # None
            /\ StepFound(bare).value = None
            /\ cached.ret.kind = "value"
            /\ cached.log = <<>>
            /\ fetched.log # <<>>

\* the (mode, step) pairs a Tensor holds
Held(obj) ==
    UNION {{<<mode, s>> : s \in DOMAIN obj.modes[mode]} : mode \in DOMAIN obj.modes}

\* the (mode, step) pairs of the tensor's entries on storage
Saved ==
    {<<storage[i].mode, storage[i].step>> :
        i \in {j \in 1..Len(storage) : storage[j].kind # "other"}}

RECURSIVE SumOfCounts(_, _)
SumOfCounts(obj, modes) ==
    IF modes = {} THEN 0
    ELSE LET mode == CHOOSE m \in modes : TRUE IN
         Cardinality(DOMAIN obj.modes[mode]) + SumOfCounts(obj, modes \ {mode})

\* C18: steps(GLOBAL) is the list of the global step numbers the Trial gives
\* for the (mode, step) pairs the tensor holds, sorted ascending, with one
\* entry per pair held (its length is the sum of the per-mode step counts),
\* computed at every call from the mode data of that moment: every pair
\* saved so far is in it
C18_GlobalSteps ==
    \A c \in BOOLEAN :
        LET r == Tensor_steps(tensors[c], Env, "GLOBAL")
            list == r.ret.list
        IN  /\ r.err = NoError /\ r.ret.kind = "list"
            /\ Held(r.obj) = Saved
            /\ Len(list) = Cardinality(Held(r.obj))
            /\ Len(list) = SumOfCounts(r.obj, DOMAIN r.obj.modes)
            /\ \A i, j \in 1..Len(list) : i < j => list[i] < list[j]
            /\ {list[i] : i \in 1..Len(list)} =
                   {Trial_global_step(r.obj.trial, at[1], at[2]) : at \in Held(r.obj)}

\* a Tensor that holds the same step number in both modes, the EVAL one met
\* before the TRAIN one; an entry has been saved since the Tensor's last
\* call, and steps(GLOBAL) lists as many steps as there are entries
C18_Witness ==
    \E c \in BOOLEAN :
        /\ DOMAIN tensors[c].modes = TrainModes
        /\ \E t \in DOMAIN tensors[c].modes["TRAIN"],
              e \in DOMAIN tensors[c].modes["EVAL"] :
               /\ t = e
               /\ Trial_global_step(tensors[c].trial, "EVAL", e)
                      < Trial_global_step(tensors[c].trial, "TRAIN", t)
        /\ Held(tensors[c]) # Saved
        /\ Len(Tensor_steps(tensors[c], Env, "GLOBAL").ret.list) = MaxListEntries

\* the steps of a list that are <= step, and the last n of a list
UpTo(list, step) == LET Le(s) == s <= step IN SelectSeq(list, Le)

Last(list, n) ==
    [i \in 1..(IF n < Len(list) THEN n ELSE Len(list)) |->
        list[Len(list) - (IF n < Len(list) THEN n ELSE Len(list)) + i]]

\* what C19 expects of prev_steps(step, n, mode) over the step list of the
\* mode
PrevStepsExpected(list, step, n) ==
    IF n = None THEN UpTo(list, step) ELSE Last(UpTo(list, step), n)

PrevStepsAsExpected(c, step, n, mode) ==
    LET r == Tensor_prev_steps(tensors[c], Env, step, n, mode) IN
    r.err = NoError =>
        r.ret = RetList(PrevStepsExpected(
                            Tensor_steps(tensors[c], Env, mode).ret.list, step, n))

\* C19: prev_steps(step, n, mode) returns, for every n >= 0, the last n of
\* the mode's step numbers that are <= step, in ascending order (all of them
\* when there are fewer than n), and all the step numbers <= step when n is
\* None
C19_LastNSteps ==
    \A c \in BOOLEAN, in \in StepInputs, n \in {None} \cup 0..MaxN :
        PrevStepsAsExpected(c, in[1], n, in[2])

\* the same for every n but 0
C19_LastNStepsButZero ==
    \A c \in BOOLEAN, in \in StepInputs, n \in {None} \cup 1..MaxN :
        PrevStepsAsExpected(c, in[1], n, in[2])

(***************************************************************************)
(* The round trip.  The event with id n is the write of the tensor's value *)
(* n at step n of TRAIN.  The reader scans the index file, hands every     *)
(* line to add_step_lazy, and fetches a location by reading the record     *)
(* that starts at the location's offset in the record file.                *)
(***************************************************************************)
NoRecord == [id |-> None, length |-> None]

\* the record that starts at byte `start` of the file
RECURSIVE RecordAtOffset(_, _)
RecordAtOffset(data, start) ==
    IF data = <<>> \/ start < 0 THEN NoRecord
    ELSE IF start = 0 THEN Head(data)
    ELSE RecordAtOffset(Tail(data), start - Head(data).length)

\* IndexReader.fetch_tensor_value on the record file: the value in the
\* record at the location, when the record has the location's length
ReadLocation(fs, location) ==
    IF RecordAtOffset(fs[Permanent("record")].data, location.start).length
           = location.len
    THEN RecordAtOffset(fs[Permanent("record")].data, location.start).id
    ELSE None

IndexLines(fs) == Range(fs[Permanent("index")].data)

RecordBlob(fs) == [location \in IndexLines(fs) |-> ReadLocation(fs, location)]

\* the full index scan: every line of the index file, in the order of the
\* file, becomes a step of the Tensor known by its location
RECURSIVE IndexScan(_, _)
IndexScan(obj, lines) ==
    IF lines = <<>> THEN obj
    ELSE IndexScan(Tensor_add_step_lazy(obj, "TRAIN", Head(lines).tname,
                                        Head(lines)).obj,
                   Tail(lines))

Scanned(c) == IndexScan(Tensor_init(NewTrial, c), files[Permanent("index")].data)

ReadEnv == [storage |-> <<>>, ended |-> TRUE, blob |-> RecordBlob(files)]

\* C20: round trip: tensors written through the pipeline, then close(), then
\* a full scan of the index: value(step, mode) of every tensor written
\* returns the value that was written
C20_RoundTrip ==
    FirstCloseDone =>
        \A c \in BOOLEAN :
            LET obj == Scanned(c) IN
            \A i \in 1..Len(enq) :
                LET v == Tensor_value(obj, ReadEnv, enq[i].id, "TRAIN") IN
                enq[i].indexed => v.err = NoError /\ v.ret = RetValue(enq[i].id)

\* two tensors were written and the pipeline closed; the second lies after
\* the first in the record file and value() reads it there
C20_Witness ==
    /\ FirstCloseDone
    /\ Len(enq) = MaxEvents
    /\ \A i \in 1..Len(enq) : enq[i].indexed
    /\ \E location \in IndexLines(files) :
        /\ location.start > 0
        /\ StepAt(Scanned(FALSE), [mode |-> "TRAIN", step |-> location.tname]).location
               = location
        /\ Tensor_value(Scanned(FALSE), ReadEnv, location.tname, "TRAIN").log
               = <<location, location>>

(***************************************************************************)
(* The in-memory store's claims.                                           *)
(***************************************************************************)


\* C21: whatever add_* calls were made on a Tensor, the step numbers it
\* holds for a mode are non-negative, and steps(mode) lists each of them
\* once, in strictly ascending order
C21_StepsUniqueAscending ==
    \A c \in BOOLEAN, mode \in TrainModes :
        LET got == Tensor_steps(tensors[c], Env, mode) IN
        IF mode \in DOMAIN got.obj.modes
        THEN LET held == DOMAIN got.obj.modes[mode]
                 list == got.ret.list
             IN  /\ got.ret.kind = "list"
                 /\ \A s \in held : s >= 0
                 /\ Range(list) = held
                 /\ Len(list) = Cardinality(held)
                 /\ \A i \in 1..(Len(list) - 1) : list[i] < list[i + 1]
        ELSE got.ret.kind = "None"

\* a caller pushed a step and then an earlier step of the same mode, and
\* the Tensor holds both
C21_Witness ==
    /\ Len(pushed) = 2
    /\ pushed[1].call.mode = pushed[2].call.mode
    /\ pushed[1].call.step > pushed[2].call.step
    /\ pushed[2].call.step >= 0
    /\ \A c \in BOOLEAN :
        DOMAIN tensors[c].modes[pushed[1].call.mode] =
            {pushed[1].call.step, pushed[2].call.step}

\* C22: an add_* call with a negative mode step raises ValueError (the
\* invalid-argument error) and leaves the Tensor as it was: no ModeSteps is
\* made for the mode, no Step is added or changed
C22_NegativeStepRejected ==
    [][pushed' # pushed /\ pushed'[Len(pushed')].call.step < 0 =>
          /\ tensors' = tensors
          /\ \A c \in BOOLEAN : pushed'[Len(pushed')].raised[c] = "ValueError"]_vars

\* a call with a negative step of a mode the Tensor had no step of was made
\* after a call that was taken, and the Tensor has no ModeSteps of that mode
C22_Witness ==
    /\ Len(pushed) = 2
    /\ pushed[1].call.step >= 0
    /\ pushed[2].call.step < 0
    /\ pushed[2].call.mode # pushed[1].call.mode
    /\ \A c \in BOOLEAN :
        /\ pushed[2].raised[c] = "ValueError"
        /\ DOMAIN tensors[c].modes = {pushed[1].call.mode}

\* C23: the store only grows: a step a Tensor holds for a mode is still
\* held after any add_* call, query or refresh
C23_StoreOnlyGrows ==
    [][\A c \in BOOLEAN : \A mode \in DOMAIN tensors[c].modes :
          /\ mode \in DOMAIN tensors'[c].modes
          /\ DOMAIN tensors[c].modes[mode] \subseteq DOMAIN tensors'[c].modes[mode]]_vars

\* a Tensor holds a step a caller pushed and, after a refresh, another step
\* of the same mode that the Trial found
C23_Witness ==
    /\ Len(pushed) = 1
    /\ pushed[1].call.step >= 0
    /\ Len(storage) = 1
    /\ storage[1].mode = pushed[1].call.mode
    /\ storage[1].step # pushed[1].call.step
    /\ \A c \in BOOLEAN :
        /\ tensors[c].trial.scanned = 1
        /\ DOMAIN tensors[c].modes[storage[1].mode] =
               {storage[1].step, pushed[1].call.step}

(***************************************************************************)
(* The Event Writer's logs: what the appends of the workers put there.     *)
(***************************************************************************)
\* the append made by this step, when it made one to `log`
Appends(log) ==
    /\ Len(applied') = Len(applied) + 1
    /\ applied'[Len(applied')][1] = log

\* the places a log's file can be at
PlacesOf(name) == {Permanent(name), get_temp_path(Permanent(name))}

\* C24: an index entry is appended for an indexed tensor write only, once,
\* after the record of that tensor was appended, and carries the tensor's
\* name, the record file's path and the offset and length at which that
\* record lies in the record file; the append of a record (of a raw event or
\* of a tensor) adds no index entry
C24_IndexEntryPerIndexedWrite ==
    [][/\ Appends("index") =>
            LET id == applied'[Len(applied')][2]
                lines == files'[get_temp_path(Permanent("index"))].data
                line == lines[Len(lines)]
            IN  /\ lines # <<>>
                /\ line.tname = id
                /\ line.file = "record"
                /\ \E i \in 1..Len(enq) : enq[i].id = id /\ enq[i].indexed
                /\ \E j \in 1..Len(applied) : applied[j] = <<"record", id>>
                /\ \A j \in 1..Len(applied) : applied[j] # <<"index", id>>
                /\ \E place \in PlacesOf("record") :
                      RecordAtOffset(files[place].data, line.start)
                          = [id |-> id, length |-> line.len]
       /\ Appends("record") =>
            LET id == applied'[Len(applied')][2]
                records == files'[get_temp_path(Permanent("record"))].data
            IN  /\ records # <<>>
                /\ records[Len(records)].id = id
                /\ \A place \in PlacesOf("index") : files'[place] = files[place]
      ]_vars

\* a raw event and then a tensor were written: the log of records holds
\* both, the index holds one entry, which points behind the raw event
C24_Witness ==
    /\ applied = <<(<<"record", 1>>), (<<"record", 2>>), (<<"index", 2>>)>>
    /\ ~enq[1].indexed
    /\ enq[2].indexed
    /\ files[get_temp_path(Permanent("index"))].data =
           <<[tname |-> 2, file |-> "record", start |-> 1, len |-> 2]>>

(***************************************************************************)
(* Resolving a step: what step() does before it answers.                   *)
(***************************************************************************)
\* C25: step(S, M) for a step that is in memory returns that Step at once:
\* it calls neither maybe_refresh nor has_passed_step (the Tensor and its
\* Trial are left as they were, entries not scanned yet stay unscanned) and
\* fetches nothing from the Blob Store
C25_KnownStepAtOnce ==
    \A c \in BOOLEAN, in \in StepInputs :
        LET key == Tensor_get_step_currently(tensors[c], in[1], in[2]) IN
        key # NoKey =>
            /\ Tensor_step(tensors[c], Env, in[1], in[2])
                   = Returned(tensors[c], RetStep(key), <<>>)
            /\ Tensor_step_calls(tensors[c], Env, in[1], in[2]) = <<>>

\* a Tensor holds a step while storage has an entry of the tensor that its
\* Trial has not scanned: a refresh would change the Tensor
C25_Witness ==
    \E c \in BOOLEAN, in \in StepInputs :
        /\ Tensor_get_step_currently(tensors[c], in[1], in[2]) # NoKey
        /\ Trial_maybe_refresh(tensors[c], Env).modes # tensors[c].modes

\* step(S, M) is called for a step that is not in memory and that the
\* refresh brings into memory
FoundByRefresh(obj, S, M) ==
    /\ Tensor_get_step_currently(obj, S, M) = NoKey
    /\ Tensor_get_step_currently(Trial_maybe_refresh(obj, Env), S, M) # NoKey

\* C26 as stated: when S is not in memory and the refresh of step(S, M)
\* makes it present, step() returns that Step and raises nothing, and
\* has_passed_step is not called
C26_ClassifiedOnlyWhenAbsent ==
    \A c \in BOOLEAN, in \in StepInputs :
        LET fresh == Trial_maybe_refresh(tensors[c], Env)
            r == Tensor_step(tensors[c], Env, in[1], in[2])
        IN  FoundByRefresh(tensors[c], in[1], in[2]) =>
                /\ r = Returned(fresh,
                                RetStep(Tensor_get_step_currently(fresh, in[1], in[2])),
                                <<>>)
                /\ "has_passed_step" \notin
                       Range(Tensor_step_calls(tensors[c], Env, in[1], in[2]))

\* C26 amended: when S is not in memory and the refresh of step(S, M) makes
\* it present, step() returns that Step and raises nothing; has_passed_step
\* is called after the refresh, before memory is looked at again, and
\* answers AVAILABLE
C26_FoundAfterRefresh ==
    \A c \in BOOLEAN, in \in StepInputs :
        LET fresh == Trial_maybe_refresh(tensors[c], Env)
            r == Tensor_step(tensors[c], Env, in[1], in[2])
        IN  FoundByRefresh(tensors[c], in[1], in[2]) =>
                /\ r = Returned(fresh,
                                RetStep(Tensor_get_step_currently(fresh, in[1], in[2])),
                                <<>>)
                /\ Tensor_step_calls(tensors[c], Env, in[1], in[2])
                       = <<"maybe_refresh", "has_passed_step">>
                /\ Trial_has_passed_step(fresh.trial, in[1], in[2]) = "AVAILABLE"

\* training saved the tensor at a step, under a mode and so under a global
\* step, that the Trial has not scanned yet
C26_Witness ==
    \E c \in BOOLEAN, S \in 0..MaxStep :
        /\ FoundByRefresh(tensors[c], S, "GLOBAL")
        /\ \E M \in TrainModes : FoundByRefresh(tensors[c], S, M)

\* the Step that step(S, M) returned holds neither the reduction red, in
\* memory or as a location, nor a full value, in memory or as a location
NothingFor(s, red) ==
    /\ s.err = NoError
    /\ red \notin DOMAIN StepFound(s).rvalues \cup DOMAIN StepFound(s).rlocations
    /\ StepFound(s).value = None
    /\ StepFound(s).location = NoLocation

\* C27: reduction_value(S, r, M, abs) of a step that holds neither the
\* reduction (r, abs) nor a full value ends in an error and makes no fetch
\* from the Blob Store with an absent location
C27_NothingToReduceFrom ==
    \A c \in BOOLEAN, in \in StepInputs, red \in Reds :
        LET s == Tensor_step(tensors[c], Env, in[1], in[2])
            r == Tensor_reduction_value(tensors[c], Env, in[1], red, in[2])
        IN  NothingFor(s, red) =>
                /\ r.err # NoError
                /\ \A i \in 1..Len(r.log) : r.log[i] # NoLocation

(***************************************************************************)
(* What a reader finds at the permanent paths of the logs.                 *)
(***************************************************************************)
\* log `before` is the beginning of log `after`
StartsWith(after, before) ==
    /\ Len(before) <= Len(after)
    /\ SubSeq(after, 1, Len(before)) = before

\* C28: the index entries and records that are at the permanent paths stay
\* there: whatever is done next (reopen, further writes, a second close),
\* a file at a permanent path keeps its content and at most gains entries
\* after it; it is never replaced or truncated
C28_VisibleContentKept ==
    [][\A name \in Paths :
          files[Permanent(name)].exists =>
              /\ files'[Permanent(name)].exists
              /\ StartsWith(files'[Permanent(name)].data,
                            files[Permanent(name)].data)]_vars

\* every index entry at the permanent path of the Index Log points to the
\* record of its tensor at the permanent path of the record file
IndexResolves ==
    \A i \in 1..Len(files[Permanent("index")].data) :
        LET line == files[Permanent("index")].data[i] IN
        /\ files[Permanent("record")].exists
        /\ RecordAtOffset(files[Permanent("record")].data, line.start)
               = [id |-> line.tname, length |-> line.len]

\* C29 as stated: at every moment, during close() as well as after it, the
\* record an index entry at the Index Log's permanent path points to is
\* readable at the record file's permanent path
C29_RecordVisibleBeforeIndex == IndexResolves

\* C29 amended: once the close() of a pipeline that was not reopened has
\* returned, the record an index entry at the Index Log's permanent path
\* points to is readable at the record file's permanent path (during
\* close() the Index Log is made visible first)
C29_RecordVisibleAfterClose ==
    closed /\ Cardinality(Started) = 1 => IndexResolves

\* a raw event and a tensor were written and close() has returned: the
\* entry of the tensor is visible and points behind the raw event's record
C29_Witness ==
    /\ closed
    /\ Cardinality(Started) = 1
    /\ Len(enq) = 2
    /\ ~enq[1].indexed
    /\ files[Permanent("index")].data =
           <<[tname |-> 2, file |-> "record", start |-> 1, len |-> 2]>>
    /\ Len(files[Permanent("record")].data) = 2

\* the reductions recorded for a Step, as values in memory or as locations
Recorded(s) == DOMAIN s.rvalues \cup DOMAIN s.rlocations

\* C30: whatever reductions were added to a step and whatever reduction
\* queries were made on it, reduction_values(S, M) returns an entry for
\* every (reduction name, abs) recorded for the step, in memory or as a
\* location
C30_EveryReductionListed ==
    \A c \in BOOLEAN, in \in StepInputs :
        LET s == Tensor_step(tensors[c], Env, in[1], in[2])
            r == Tensor_reduction_values(tensors[c], Env, in[1], in[2])
        IN  s.err = NoError =>
                /\ r.err = NoError
                /\ r.ret.kind = "dict"
                /\ DOMAIN r.ret.dict = Recorded(StepFound(s))

====
